---- MODULE Spec2Model ----
(***************************************************************************)
(* The queue board of hidr0c/vhmqueueboard: the store behind the HTTP      *)
(* routes (src/src/app/api/queue) and the QueueBoard client component in   *)
(* its two synchronisation designs:                                        *)
(*   - the realtime client (src/unnamed/part_006): Pusher broadcasts,      *)
(*     pendingOpsRef / lockedEntriesRef / lockedSidesRef;                  *)
(*   - the polling client (src/src/components/QueueBoard.tsx:350-1000):    *)
(*     5 s polling with an AbortController and the isTypingRef flag.       *)
(* One client is modelled against one store; requests travel through       *)
(* `inflight`, where the server handles them in any order and their        *)
(* responses come back in any order.  SpecStore and SpecSync follow the    *)
(* route handlers await by await, with the calls of several clients        *)
(* interleaved at the store and the HistoryLog table recorded.             *)
(*                                                                         *)
(* Time is counted in units of 500 ms (the debounce delay), so the 1 s, 2 s,*)
(* 3 s and 5 s delays of the code are 2, 4, 6 and 10 units.  Date.now() of  *)
(* a handler invocation is the pair <<now, n>>: n tells apart invocations   *)
(* that fall into the same unit (0 for the invocation made by the debounce  *)
(* timer, the running number of the user action otherwise).                 *)
(***************************************************************************)
EXTENDS Integers, Sequences, FiniteSets, TLC

\* ------------------------------------------------------------- bounds
\* Rows of the grid in the model (the program has 12, route.ts:88).
NumRows == 2
\* Last time unit the clock reaches.
MaxTime == 6
\* User actions (and deliveries from other parties) in one behaviour.
MaxOps == 2
\* Requests that fail in one behaviour.
MaxFaults == 1
\* Uncheck operations in one behaviour of SpecReorder.
MaxUnchecks == 1
\* Check operations in one behaviour of SpecOneCheck.
MaxChecks == 1
\* Calls of the clients on the routes (specification of the store).
MaxRequests == 2
\* Queries of initialize the connection pool runs at a time.
PoolSize == 2
\* Rate-limit windows that pass.
MaxWindows == 2
\* Calls rejected in one rate-limit window.
MaxRejected == 2

\* ------------------------------------------------- program constants
DebounceDelay == 1      \* 500 ms
TypingDelay == 2        \* 1000 ms
EntryLockDelay == 4     \* 2000 ms
SideLockDelay == 6      \* 3000 ms
LockWindow == 6         \* 3000 ms
PollInterval == 10      \* 5000 ms
WindowMs == 120         \* 60000 ms
GetLimit == 60          \* calls of GET /api/queue in a window
PostLimit == 10         \* calls of POST /api/queue in a window

Rows == 0 .. (NumRows - 1)
Sides == {"left", "right"}
Positions == {"P1", "P2"}
RawTexts == {"", "a", "á", "c"}

SideOrd(s) == IF s = "left" THEN 0 ELSE 1
PosOrd(p) == IF p = "P1" THEN 0 ELSE 1

\* The id the store assigns to the slot (row, side, position): the slots are
\* created in the order of the three nested loops of POST /api/queue.
IdOf(row, side, pos) == row * 4 + SideOrd(side) * 2 + PosOrd(pos) + 1
Ids == {IdOf(r, s, p) : r \in Rows, s \in Sides, p \in Positions}

\* The inputs of a behaviour: the slots the user types into or clears, the side
\* whose checkboxes and row buttons the user clicks, and the slots other
\* parties publish (the edited slot, a slot of another row of its side, a slot
\* of the other side).
UserIds == {IdOf(0, "left", "P1")}
UserSides == {"left"}
BroadcastIds == {IdOf(0, "left", "P1"), IdOf(NumRows - 1, "left", "P2"),
                 IdOf(0, "right", "P1")}
\* The slots the user of the polling client types into.
TypedIds == {IdOf(0, "left", "P1"), IdOf(0, "left", "P2")}
\* What the user types.
TypedTexts == {"á", "c"}

\* QueueEntry without updatedAt, which no decision of the program reads.
QueueEntry(i, r, s, p, t, c) ==
    [id |-> i, rowIndex |-> r, side |-> s, position |-> p, text |-> t, checked |-> c]

\* The grid POST /api/queue {action: "initialize"} creates.
InitialGrid ==
    [i \in Ids |->
        LET r == (i - 1) \div 4
            s == IF ((i - 1) % 4) \div 2 = 0 THEN "left" ELSE "right"
            p == IF (i - 1) % 2 = 0 THEN "P1" ELSE "P2"
        IN  QueueEntry(i, r, s, p, "", FALSE)]

VARIABLES
    store,          \* the QueueEntry table: id -> record
    history,        \* the HistoryLog table, in order of creation
    entries,        \* useState<QueueEntry[]>: the client's view
    error,          \* useState<string | null>: "" stands for null
    loading,        \* useState(true)
    stateReplaced,  \* the last step installed a new entries array (a re-render)
    pusherRef,      \* pusherRef.current is set (Pusher is configured)
    pendingOps,     \* pendingOpsRef: ids with a store call of this client in flight
    lockedEntries,  \* lockedEntriesRef: id -> lock timestamp (NoLock: absent)
    lockedSides,    \* lockedSidesRef: side -> lock timestamp (NoLock: absent)
    isTyping,       \* isTypingRef
    typingTimeout,  \* typingTimeoutRef: due time of the pending timer, -1: none
    debounceTimer,  \* the timer of debounce(): [id, text, due] or NoTimer
    timers,         \* pending setTimeout callbacks that release a lock
    inflight,       \* fetch() calls on their way to the server or back
    calls,          \* handler invocations suspended in await Promise.all
    nextPoll,       \* due time of the next setInterval tick, -1: no polling
    abortController,\* token of the poll the current AbortController belongs to
    storeCalls,     \* log of the store calls issued by the client
    now,            \* the clock
    ops,            \* user actions so far
    faults,         \* failed requests so far
    rateLimitStore, \* store of rateLimit.ts: key -> [count, resetTime]
    rateResult      \* per key, what the latest call of rateLimit returned

vars == <<store, history, entries, error, loading, stateReplaced, pusherRef, pendingOps,
          lockedEntries, lockedSides, isTyping, typingTimeout, debounceTimer,
          timers, inflight, calls, nextPoll, abortController, storeCalls, now,
          ops, faults, rateLimitStore, rateResult>>

\* The state of the rate limiter.
rateVars == <<rateLimitStore, rateResult>>

NoLock == <<-1, -1>>
NoTimer == [id |-> 0, text |-> "", due |-> -1]
NoToken == <<-1, -1>>

\* The entry an error response's JSON body is read as: { error: ... } has no
\* id, rowIndex, side, position, text or checked.
ErrorBody == QueueEntry(0, -1, "", "", "", FALSE)
\* undefined, the result of Array.prototype.find without a match.
NoEntry == QueueEntry(-1, -1, "", "", "", FALSE)

\* ------------------------------------------------------------ helpers
\* { ...e, ...updates }
Spread(e, updates) ==
    [f \in DOMAIN e |-> IF f \in DOMAIN updates THEN updates[f] ELSE e[f]]

\* prev.map(e => e.id === id ? { ...e, ...updates } : e)
MapEntry(prev, id, updates) ==
    [i \in DOMAIN prev |->
        IF prev[i].id = id THEN Spread(prev[i], updates) ELSE prev[i]]

\* prev.map(e => e.id === id ? data : e)
ReplaceEntry(prev, id, data) ==
    [i \in DOMAIN prev |-> IF prev[i].id = id THEN data ELSE prev[i]]

\* list.find(e => e.rowIndex === rowIndex && e.side === side && e.position === position)
FindEntry(list, rowIndex, side, position) ==
    LET hits == {i \in DOMAIN list : /\ list[i].rowIndex = rowIndex
                                     /\ list[i].side = side
                                     /\ list[i].position = position}
    IN  IF hits = {} THEN NoEntry
        ELSE list[CHOOSE i \in hits : \A j \in hits : i <= j]

\* getEntry of the component: find over the rendered state.
getEntry(rowIndex, side, position) == FindEntry(entries, rowIndex, side, position)

\* The board is on screen (neither the loading nor the error page), and the
\* row is rendered: Array.from({length: 12}) renders a row only when both of
\* its entries are found.
BoardShown == ~loading /\ error = ""
RowRendered(rowIndex, side) ==
    /\ BoardShown
    /\ getEntry(rowIndex, side, "P1") # NoEntry
    /\ getEntry(rowIndex, side, "P2") # NoEntry

\* The ids whose text input is on screen.
InputsRendered ==
    {getEntry(rs[1], rs[2], p).id :
        rs \in {x \in Rows \X Sides : RowRendered(x[1], x[2])}, p \in Positions}

\* normalizeToEnglish of @/lib/textUtils: folds Vietnamese diacritics to plain
\* letters.
normalizeToEnglish(rawText) == IF rawText = "á" THEN "a" ELSE rawText

\* ------------------------------------------------------------- server
OrderKey(e) == e.rowIndex * 4 + SideOrd(e.side) * 2 + PosOrd(e.position)

RECURSIVE OrderBy(_)
OrderBy(S) ==
    IF S = {} THEN <<>>
    ELSE LET m == CHOOSE x \in S : \A y \in S :
                      \/ OrderKey(x) < OrderKey(y)
                      \/ (OrderKey(x) = OrderKey(y) /\ x.id <= y.id)
         IN  <<m>> \o OrderBy(S \ {m})

\* prisma.queueEntry.findMany({orderBy: [rowIndex, side, position]})
findMany(st) == OrderBy({st[i] : i \in DOMAIN st})

\* An update that writes every column, the absent ones with their defaults.
PATCH_replacing(st, id, body) ==
    IF id \notin DOMAIN st THEN st
    ELSE [st EXCEPT ![id] =
            Spread(Spread(@, [text |-> "", checked |-> FALSE]),
                   [f \in (DOMAIN body) \cap {"text", "checked"} |-> body[f]])]

\* PATCH /api/queue/[id]: only text and checked are read from the body.
PATCH(st, id, body) ==
    IF id \notin DOMAIN st THEN st
    ELSE [st EXCEPT ![id] =
            Spread(@, [f \in (DOMAIN body) \cap {"text", "checked"} |-> body[f]])]

\* A DELETE that removes the row.
DELETE_removing(st, id) == [i \in (DOMAIN st) \ {id} |-> st[i]]

\* DELETE /api/queue/[id]: clears the text.
DELETE(st, id) ==
    IF id \notin DOMAIN st THEN st ELSE [st EXCEPT ![id].text = ""]

\* A fetch() call: tok names the handler invocation that issued it, kind the
\* code that awaits it.  changed records the fields whose stored value the
\* update of the route handler changed.
Request(tok, kind, method, id, body) ==
    [tok |-> tok, kind |-> kind, method |-> method, id |-> id, body |-> body,
     stage |-> "sent", status |-> "", entry |-> NoEntry, list |-> <<>>,
     retryAfter |-> 0, changed |-> {}]

StoreCall(r) == [tok |-> r.tok, method |-> r.method, id |-> r.id, body |-> r.body]

\* Retry-After of a 429, in seconds.
RetryAfterValues == {1, 2}

\* The route handler a request reaches, applied to the store.
Handle(st, r) ==
    CASE r.method = "PATCH" -> PATCH(st, r.id, r.body)
      [] r.method = "DELETE" -> DELETE(st, r.id)
      [] OTHER -> st

\* String(value) of a boolean.
String(b) == IF b THEN "true" ELSE "false"

\* prisma.historyLog.create({data: {rowIndex, side, position, action, oldValue,
\* newValue}}) with the identity of the entry the handler read.
HistoryLog(entry, action, oldValue, newValue) ==
    [rowIndex |-> entry.rowIndex, side |-> entry.side,
     position |-> entry.position, action |-> action,
     oldValue |-> oldValue, newValue |-> newValue]

\* "Log the change" of PATCH (route.ts:34-59): currentEntry is the entry the
\* handler read before its update.
PATCH_logs(currentEntry, body) ==
    (IF "checked" \in DOMAIN body /\ body.checked # currentEntry.checked
     THEN <<HistoryLog(currentEntry,
                       IF body.checked THEN "checked" ELSE "unchecked",
                       String(currentEntry.checked), String(body.checked))>>
     ELSE <<>>)
    \o (IF "text" \in DOMAIN body /\ body.text # currentEntry.text
        THEN <<HistoryLog(currentEntry, "text_changed", currentEntry.text,
                          body.text)>>
        ELSE <<>>)

\* "Log the deletion" of DELETE (route.ts:96-106).
DELETE_logs(entry) == <<HistoryLog(entry, "text_changed", entry.text, "")>>

\* The boards never read the HistoryLog table (fetchHistory feeds a separate
\* panel): the specifications of the boards start with an untracked table and
\* do not follow it, the specifications of the store do.
Untracked == <<HistoryLog(NoEntry, "untracked", "", "")>>

\* The HistoryLog table after the creation of logs.
Created(h, logs) == IF h = Untracked THEN h ELSE h \o logs

\* The history entries the handler of a request creates.
HandleLogs(st, r) ==
    CASE r.method = "PATCH" /\ r.id \in DOMAIN st -> PATCH_logs(st[r.id], r.body)
      [] r.method = "DELETE" /\ r.id \in DOMAIN st -> DELETE_logs(st[r.id])
      [] OTHER -> <<>>

\* The server handles a request and the response sets out.
ServerOk(r) ==
    /\ r \in inflight /\ r.stage = "sent" /\ r.kind # "group"
    /\ LET st == Handle(store, r)
           found == r.method = "GET" \/ r.id \in DOMAIN store
       IN  /\ store' = st
           /\ history' = Created(history, HandleLogs(store, r))
           /\ inflight' = (inflight \ {r}) \cup
                {[r EXCEPT !.stage = "response",
                           !.status = IF found THEN "ok" ELSE "error",
                           !.entry = IF r.method = "GET" THEN NoEntry
                                     ELSE IF found THEN st[r.id] ELSE ErrorBody,
                           !.list = IF r.method = "GET" THEN findMany(store)
                                    ELSE <<>>]}
    /\ UNCHANGED <<entries, error, loading, stateReplaced, pusherRef, rateVars, pendingOps,
                   lockedEntries, lockedSides, isTyping, typingTimeout,
                   debounceTimer, timers, calls, nextPoll, abortController,
                   storeCalls, now, ops, faults>>

\* The request fails: the network drops it (fetch rejects) or the handler
\* answers 500 with an error body; GET /api/queue is also rate limited (429,
\* route.ts:11-27), and its body may be JSON that is neither an array nor an
\* error.
FaultStatuses(r) ==
    {"neterr", "error"} \cup
        (IF r.method = "GET" THEN {"ratelimited", "nonarray"} ELSE {})

ServerFault(r, status, retryAfter) ==
    /\ r \in inflight /\ r.stage = "sent" /\ r.kind # "group"
    /\ faults < MaxFaults
    /\ status \in FaultStatuses(r)
    /\ retryAfter \in (IF status = "ratelimited" THEN RetryAfterValues ELSE {0})
    /\ faults' = faults + 1
    /\ inflight' = (inflight \ {r}) \cup
            {[r EXCEPT !.stage = "response", !.status = status,
                       !.entry = IF r.method = "GET" THEN NoEntry ELSE ErrorBody,
                       !.retryAfter = retryAfter]}
    /\ UNCHANGED <<store, history, entries, error, loading, stateReplaced, pusherRef, rateVars,
                   pendingOps, lockedEntries, lockedSides, isTyping,
                   typingTimeout, debounceTimer, timers, calls, nextPoll,
                   abortController, storeCalls, now, ops>>

\* ------------------------------------------------------------- timers
\* setTimeout callbacks that release a lock or clear the error.
Timer(kind, key, lockTime, due) ==
    [kind |-> kind, key |-> key, lockTime |-> lockTime, due |-> due]

\* Something is due: the clock does not pass a due timer.  The clock starts
\* with the first user action.
SomethingDue ==
    \/ \E t \in timers : t.due <= now
    \/ debounceTimer # NoTimer /\ debounceTimer.due <= now
    \/ typingTimeout # -1 /\ typingTimeout <= now
    \/ nextPoll # -1 /\ nextPoll <= now

Tick ==
    /\ now < MaxTime
    /\ ~SomethingDue /\ ops > 0
    /\ now' = now + 1
    /\ UNCHANGED <<store, history, entries, error, loading, stateReplaced, pusherRef, rateVars,
                   pendingOps, lockedEntries, lockedSides, isTyping,
                   typingTimeout, debounceTimer, timers, inflight, calls,
                   nextPoll, abortController, storeCalls, ops, faults>>

\* Release callbacks that delete the lock whoever holds it.
TimerFire_unconditional(t) ==
    /\ t \in timers /\ t.due <= now
    /\ timers' = timers \ {t}
    /\ lockedEntries' =
        IF t.kind = "entry"
        THEN [lockedEntries EXCEPT ![t.key] = NoLock] ELSE lockedEntries
    /\ lockedSides' =
        IF t.kind = "side"
        THEN [lockedSides EXCEPT ![t.key] = NoLock] ELSE lockedSides
    /\ error' = IF t.kind = "clearError" THEN "" ELSE error
    /\ UNCHANGED <<store, history, entries, loading, stateReplaced, pusherRef, rateVars, pendingOps,
                   isTyping, typingTimeout, debounceTimer, inflight, calls,
                   nextPoll, abortController, storeCalls, now, ops, faults>>

\* The callbacks of part_006:285-289, 447-452, 487-491, 550-554 (a lock is
\* deleted only if it still carries the timestamp of the invocation that set the
\* timer) and of :54 / QueueBoard.tsx:400 (setError(null)).
TimerFire(t) ==
    /\ t \in timers /\ t.due <= now
    /\ timers' = timers \ {t}
    /\ lockedEntries' =
        IF t.kind = "entry" /\ lockedEntries[t.key] = t.lockTime
        THEN [lockedEntries EXCEPT ![t.key] = NoLock] ELSE lockedEntries
    /\ lockedSides' =
        IF t.kind = "side" /\ lockedSides[t.key] = t.lockTime
        THEN [lockedSides EXCEPT ![t.key] = NoLock] ELSE lockedSides
    /\ error' = IF t.kind = "clearError" THEN "" ELSE error
    /\ UNCHANGED <<store, history, entries, loading, stateReplaced, pusherRef, rateVars, pendingOps,
                   isTyping, typingTimeout, debounceTimer, inflight, calls,
                   nextPoll, abortController, storeCalls, now, ops, faults>>

\* ------------------------------------- rate limiter (lib/rateLimit.ts)
\* The keys the routes of /api/queue pass for one client, `get-${ip}` and
\* `post-${ip}`; getClientIp answers "unknown" without proxy headers.
GetKey == "get-unknown"
PostKey == "post-unknown"
RateKeys == {GetKey, PostKey}

\* limit of a key: 60 a window for GET /api/queue, 10 for POST /api/queue.
Limit(key) == IF key = GetKey THEN GetLimit ELSE PostLimit

\* const store: RateLimitStore = {}
EmptyRateStore == [k \in {} |-> [count |-> 0, resetTime |-> 0]]

\* Nothing returned yet.
NoResult == [success |-> FALSE, remaining |-> 0, resetTime |-> -1]

InitRate ==
    /\ rateLimitStore = EmptyRateStore
    /\ rateResult = [k \in RateKeys |-> NoResult]

\* A limiter that starts the window anew when it rejects a call.
rateLimit_restarting(st, identifier, limit, windowMs, t) ==
    LET key == identifier
    IN  IF key \notin DOMAIN st \/ st[key].resetTime < t
        THEN LET w == [count |-> 1, resetTime |-> t + windowMs]
             IN  [store |-> [k \in (DOMAIN st) \cup {key} |->
                                IF k = key THEN w ELSE st[k]],
                  result |-> [success |-> TRUE, remaining |-> limit - 1,
                              resetTime |-> w.resetTime]]
        ELSE LET st2 == [st EXCEPT ![key].count = @ + 1]
                 st3 == [st2 EXCEPT ![key].resetTime = t + windowMs]
             IN  IF st2[key].count > limit
                 THEN [store |-> st3,
                       result |-> [success |-> FALSE, remaining |-> 0,
                                   resetTime |-> st3[key].resetTime]]
                 ELSE [store |-> st2,
                       result |-> [success |-> TRUE,
                                   remaining |-> limit - st2[key].count,
                                   resetTime |-> st2[key].resetTime]]

\* rateLimit(identifier, limit, windowMs), rateLimit.ts:23-60, on the store st
\* at Date.now() = t: the store after the call and what the call returns.
rateLimit(st, identifier, limit, windowMs, t) ==
    LET key == identifier
    IN  IF key \notin DOMAIN st \/ st[key].resetTime < t
        THEN LET w == [count |-> 1, resetTime |-> t + windowMs]
             IN  [store |-> [k \in (DOMAIN st) \cup {key} |->
                                IF k = key THEN w ELSE st[k]],
                  result |-> [success |-> TRUE, remaining |-> limit - 1,
                              resetTime |-> w.resetTime]]
        ELSE LET st2 == [st EXCEPT ![key].count = @ + 1]
             IN  IF st2[key].count > limit
                 THEN [store |-> st2,
                       result |-> [success |-> FALSE, remaining |-> 0,
                                   resetTime |-> st2[key].resetTime]]
                 ELSE [store |-> st2,
                       result |-> [success |-> TRUE,
                                   remaining |-> limit - st2[key].count,
                                   resetTime |-> st2[key].resetTime]]

\* A route calls rateLimit for the client (route.ts:11 and :60-64).  Calls
\* beyond MaxRejected rejections in a window add nothing and are cut.
RateCall(key) ==
    /\ IF key \in DOMAIN rateLimitStore
       THEN \/ rateLimitStore[key].resetTime < now
            \/ rateLimitStore[key].count < Limit(key) + MaxRejected
       ELSE TRUE
    /\ LET r == rateLimit(rateLimitStore, key, Limit(key), WindowMs, now)
       IN  /\ rateLimitStore' = r.store
           /\ rateResult' = [rateResult EXCEPT ![key] = r.result]
    /\ UNCHANGED <<store, history, entries, error, loading, stateReplaced, pusherRef,
                   pendingOps, lockedEntries, lockedSides, isTyping,
                   typingTimeout, debounceTimer, timers, inflight, calls,
                   nextPoll, abortController, storeCalls, now, ops, faults>>

GET_rateLimit == RateCall(GetKey)

POST_rateLimit == RateCall(PostKey)

\* The setInterval callback of rateLimit.ts:14-21: the windows that are over
\* are deleted.
cleanup ==
    /\ \E key \in DOMAIN rateLimitStore : rateLimitStore[key].resetTime < now
    /\ rateLimitStore' = [k \in {key \in DOMAIN rateLimitStore :
                                    ~(rateLimitStore[key].resetTime < now)} |->
                            rateLimitStore[k]]
    /\ UNCHANGED <<store, history, entries, error, loading, stateReplaced, pusherRef,
                   pendingOps, lockedEntries, lockedSides, isTyping,
                   typingTimeout, debounceTimer, timers, inflight, calls,
                   nextPoll, abortController, storeCalls, now, ops, faults,
                   rateResult>>

\* Half a window passes on the server.
RateTick ==
    /\ now < MaxWindows * WindowMs
    /\ now' = now + WindowMs \div 2
    /\ UNCHANGED <<store, history, entries, error, loading, stateReplaced, pusherRef,
                   pendingOps, lockedEntries, lockedSides, isTyping,
                   typingTimeout, debounceTimer, timers, inflight, calls,
                   nextPoll, abortController, storeCalls, ops, faults,
                   rateVars>>

\* ---------------------------------------- realtime client (part_006)
\* updateEntry(id, updates), part_006:252-267: up to the await of fetch.
\* lockTime is Date.now() of the invocation.
RT_updateEntry(id, updates, lockTime) ==
    LET r == Request(lockTime, "updateEntry", "PATCH", id, updates)
    IN  /\ pendingOps' = pendingOps \cup {id}
        /\ lockedEntries' = [lockedEntries EXCEPT ![id] = lockTime]
        /\ entries' = MapEntry(entries, id, updates)
        /\ stateReplaced' = TRUE
        /\ inflight' = inflight \cup {r}
        /\ storeCalls' = Append(storeCalls, StoreCall(r))

\* The rest of updateEntry, part_006:269-290, when the fetch settles.
RT_updateEntryResponse(r) ==
    /\ r \in inflight /\ r.stage = "response" /\ r.kind = "updateEntry"
    /\ inflight' = inflight \ {r}
    /\ IF r.status \in {"ok", "error", "nonarray"} /\ ~pusherRef
       THEN /\ entries' = ReplaceEntry(entries, r.id, r.entry)
            /\ stateReplaced' = TRUE
       ELSE /\ UNCHANGED entries
            /\ stateReplaced' = FALSE
    /\ pendingOps' = pendingOps \ {r.id}
    /\ timers' = timers \cup {Timer("entry", r.id, r.tok, now + EntryLockDelay)}
    /\ UNCHANGED <<store, history, error, loading, pusherRef, rateVars, lockedEntries, lockedSides,
                   isTyping, typingTimeout, debounceTimer, calls, nextPoll,
                   abortController, storeCalls, now, ops, faults>>

\* debounce(fn, 500) of @/lib/debounce: every call cancels the pending timer
\* and sets a new one for the latest arguments.
debounce(id, text) == [id |-> id, text |-> text, due |-> now + DebounceDelay]

\* handleTextInput(id, rawText), part_006:302-314.
RT_handleTextInput(id, rawText) ==
    /\ ops < MaxOps /\ id \in InputsRendered /\ rawText \in RawTexts
    /\ LET normalized == normalizeToEnglish(rawText)
           lockTime == <<now, ops + 1>>
       IN  /\ lockedEntries' = [lockedEntries EXCEPT ![id] = lockTime]
           /\ entries' = MapEntry(entries, id, [text |-> normalized])
           /\ debounceTimer' = debounce(id, normalized)
    /\ stateReplaced' = TRUE
    /\ ops' = ops + 1
    /\ UNCHANGED <<store, history, error, loading, pusherRef, rateVars, pendingOps, lockedSides,
                   isTyping, typingTimeout, timers, inflight, calls, nextPoll,
                   abortController, storeCalls, now, faults>>

\* The debounce timer fires: debouncedUpdateText's callback, part_006:295-297.
RT_debouncedUpdateText ==
    /\ debounceTimer # NoTimer /\ debounceTimer.due <= now
    /\ RT_updateEntry(debounceTimer.id, [text |-> debounceTimer.text], <<now, 0>>)
    /\ debounceTimer' = NoTimer
    /\ UNCHANGED <<store, history, error, loading, pusherRef, rateVars, lockedSides, isTyping,
                   typingTimeout, timers, calls, nextPoll, abortController, now,
                   ops, faults>>

\* The key of DEDUPLICATE, `${entry.rowIndex}-${entry.side}-${entry.position}`.
SameKey(e, f) ==
    e.rowIndex = f.rowIndex /\ e.side = f.side /\ e.position = f.position

\* A deduplication that keeps, per key, the entry that comes first in the array.
uniqueEntries_first(currentEntries) ==
    LET dom == DOMAIN currentEntries
        same(i) == {j \in dom : SameKey(currentEntries[i], currentEntries[j])}
        firsts == {i \in dom : \A j \in same(i) : i <= j}
        keys == SelectSeq([i \in dom |-> i], LAMBDA i : i \in firsts)
    IN  [n \in DOMAIN keys |-> currentEntries[keys[n]]]

\* DEDUPLICATE, part_006:348-358 and :405-414: per (rowIndex, side, position)
\* the entry with the largest id (the first of them in the array) is kept.
uniqueEntries(currentEntries) ==
    LET dom == DOMAIN currentEntries
        same(i) == {j \in dom : SameKey(currentEntries[i], currentEntries[j])}
        \* Map keeps the insertion order of the keys ...
        firsts == {i \in dom : \A j \in same(i) : i <= j}
        \* ... and per key the entry that won entry.id > existing.id.
        winner(i) == CHOOSE k \in same(i) : \A j \in same(i) :
                        \/ currentEntries[j].id < currentEntries[k].id
                        \/ (currentEntries[j].id = currentEntries[k].id /\ k <= j)
        keys == SelectSeq([i \in dom |-> i], LAMBDA i : i \in firsts)
    IN  [n \in DOMAIN keys |-> currentEntries[winner(keys[n])]]

Range(seq) == {seq[i] : i \in DOMAIN seq}

\* An optimistic check that unchecks the checked rows of both sides.
checkOptimistic_anySide(prev, rowIndex, side) ==
    [i \in DOMAIN prev |->
        IF prev[i].side = side /\ prev[i].rowIndex = rowIndex
        THEN [prev[i] EXCEPT !.checked = TRUE]
        ELSE IF prev[i].checked THEN [prev[i] EXCEPT !.checked = FALSE]
        ELSE prev[i]]

\* The optimistic updates of handleCheckboxChange, part_006:334-343 (the same
\* updater as QueueBoard.tsx:589-598) and part_006:395-400.
checkOptimistic(prev, rowIndex, side) ==
    [i \in DOMAIN prev |->
        IF prev[i].side = side
        THEN IF prev[i].rowIndex = rowIndex THEN [prev[i] EXCEPT !.checked = TRUE]
             ELSE IF prev[i].checked THEN [prev[i] EXCEPT !.checked = FALSE]
             ELSE prev[i]
        ELSE prev[i]]

RT_uncheckOptimistic(prev, rowIndex, side) ==
    [i \in DOMAIN prev |->
        IF prev[i].side = side /\ prev[i].rowIndex = rowIndex
        THEN [prev[i] EXCEPT !.checked = FALSE] ELSE prev[i]]

\* The entries handleCheckboxChange sends a PATCH for, part_006:362 and :417.
RT_entriesToUpdate(currentEntries, rowIndex, side, checked) ==
    SelectSeq(uniqueEntries(currentEntries),
              LAMBDA e : e.side = side /\ (checked \/ e.rowIndex = rowIndex))

\* handleCheckboxChange(rowIndex, side, checked), part_006:317-444, up to the
\* await of Promise.all.  The checkbox of a row shows p1Entry.checked and the
\* handler gets the toggled value.  currentEntries is the state the updater of
\* setEntries is handed, the rendered state.
RT_handleCheckboxChange(rowIndex, side, checked) ==
    /\ ops < MaxOps /\ RowRendered(rowIndex, side)
    /\ checked = ~getEntry(rowIndex, side, "P1").checked
    /\ LET lockTime == <<now, ops + 1>>
           currentEntries == entries
           toUpdate == RT_entriesToUpdate(currentEntries, rowIndex, side, checked)
           reqs == [k \in DOMAIN toUpdate |->
                        Request(lockTime, "group", "PATCH", toUpdate[k].id,
                                [checked |-> checked /\ toUpdate[k].rowIndex = rowIndex])]
       IN  /\ lockedSides' = [lockedSides EXCEPT ![side] = lockTime]
           /\ entries' = IF checked
                         THEN checkOptimistic(entries, rowIndex, side)
                         ELSE RT_uncheckOptimistic(entries, rowIndex, side)
           /\ pendingOps' = pendingOps \cup {e.id : e \in Range(toUpdate)}
           /\ inflight' = inflight \cup Range(reqs)
           /\ storeCalls' = storeCalls \o [k \in DOMAIN reqs |-> StoreCall(reqs[k])]
           /\ calls' = calls \cup
                {[tok |-> lockTime, kind |-> "side", key |-> side,
                  ids |-> {e.id : e \in Range(toUpdate)}]}
    /\ stateReplaced' = TRUE
    /\ ops' = ops + 1
    /\ UNCHANGED <<store, history, error, loading, pusherRef, rateVars, lockedEntries, isTyping,
                   typingTimeout, debounceTimer, timers, nextPoll,
                   abortController, now, faults>>

\* A group in which a not-found answer or a failed call rejects Promise.all
\* and the calls that have not yet reached the server are dropped.
RT_groupSettle_aborting(r, ok) ==
    /\ r \in inflight /\ r.kind = "group"
    /\ ok \/ faults < MaxFaults
    /\ store' = IF ok THEN Handle(store, r) ELSE store
    /\ history' = IF ok THEN Created(history, HandleLogs(store, r)) ELSE history
    /\ faults' = IF ok THEN faults ELSE faults + 1
    /\ inflight' = IF ~ok \/ r.id \notin DOMAIN store
                   THEN {q \in inflight : q.tok # r.tok}
                   ELSE inflight \ {r}
    /\ LET awaiting == {c \in calls : c.tok = r.tok}
           settles == \/ ~ok
                      \/ r.id \notin DOMAIN store
                      \/ \A q \in inflight : q.tok = r.tok => q = r
       IN  IF awaiting # {} /\ settles
           THEN LET c == CHOOSE c \in awaiting : TRUE
                IN  /\ calls' = calls \ {c}
                    /\ pendingOps' = pendingOps \ c.ids
                    /\ timers' = timers \cup
                            {Timer("side", c.key, c.tok, now + SideLockDelay)}
           ELSE UNCHANGED <<calls, pendingOps, timers>>
    /\ stateReplaced' = FALSE
    /\ UNCHANGED <<entries, error, loading, pusherRef, rateVars, lockedEntries,
                   lockedSides, isTyping, typingTimeout, debounceTimer, nextPoll,
                   abortController, storeCalls, now, ops>>

\* A fetch of a Promise.all group settles: the server has handled the request
\* (ok), or the network dropped it and the fetch rejects (a fetch rejects on a
\* network error only).  The component does not read the responses of a group,
\* so the handling and the settling are one step.  Promise.all resolves when
\* the last fetch of the group has resolved and rejects with the first that
\* rejects; then the finally block runs (part_006:386-389, 440-443, 544-555)
\* and the release timer of the side lock is set (part_006:447-452, 550-554).
RT_groupSettle(r, ok) ==
    /\ r \in inflight /\ r.kind = "group"
    /\ ok \/ faults < MaxFaults
    /\ store' = IF ok THEN Handle(store, r) ELSE store
    /\ history' = IF ok THEN Created(history, HandleLogs(store, r)) ELSE history
    /\ faults' = IF ok THEN faults ELSE faults + 1
    /\ inflight' = inflight \ {r}
    /\ LET awaiting == {c \in calls : c.tok = r.tok}
           settles == \/ ~ok
                      \/ \A q \in inflight : q.tok = r.tok => q = r
       IN  IF awaiting # {} /\ settles
           THEN LET c == CHOOSE c \in awaiting : TRUE
                IN  /\ calls' = calls \ {c}
                    /\ pendingOps' = pendingOps \ c.ids
                    /\ timers' = timers \cup
                            {Timer("side", c.key, c.tok, now + SideLockDelay)}
           ELSE UNCHANGED <<calls, pendingOps, timers>>
    /\ stateReplaced' = FALSE
    /\ UNCHANGED <<entries, error, loading, pusherRef, rateVars, lockedEntries,
                   lockedSides, isTyping, typingTimeout, debounceTimer, nextPoll,
                   abortController, storeCalls, now, ops>>

\* clearEntry(id), part_006:456-471, up to the await of fetch.  No control of
\* the realtime board calls it (the row button calls clearRow).
RT_clearEntry(id) ==
    /\ ops < MaxOps /\ id \in InputsRendered
    /\ LET lockTime == <<now, ops + 1>>
           r == Request(lockTime, "clearEntry", "DELETE", id, [text |-> ""])
       IN  /\ pendingOps' = pendingOps \cup {id}
           /\ lockedEntries' = [lockedEntries EXCEPT ![id] = lockTime]
           /\ entries' = MapEntry(entries, id, [text |-> ""])
           /\ inflight' = inflight \cup {r}
           /\ storeCalls' = Append(storeCalls, StoreCall(r))
    /\ stateReplaced' = TRUE
    /\ ops' = ops + 1
    /\ UNCHANGED <<store, history, error, loading, pusherRef, rateVars, lockedSides, isTyping,
                   typingTimeout, debounceTimer, timers, calls, nextPoll,
                   abortController, now, faults>>

\* The rest of clearEntry, part_006:473-492.
RT_clearEntryResponse(r) ==
    /\ r \in inflight /\ r.stage = "response" /\ r.kind = "clearEntry"
    /\ inflight' = inflight \ {r}
    /\ pendingOps' = pendingOps \ {r.id}
    /\ timers' = timers \cup {Timer("entry", r.id, r.tok, now + EntryLockDelay)}
    /\ stateReplaced' = FALSE
    /\ UNCHANGED <<store, history, entries, error, loading, pusherRef, rateVars, lockedEntries,
                   lockedSides, isTyping, typingTimeout, debounceTimer, calls,
                   nextPoll, abortController, storeCalls, now, ops, faults>>

\* clearRow(rowIndex, side), part_006:496-540, up to the await of Promise.all.
RT_clearRow(rowIndex, side) ==
    /\ ops < MaxOps /\ RowRendered(rowIndex, side)
    /\ LET lockTime == <<now, ops + 1>>
           currentEntries == entries
           p1Entry == FindEntry(currentEntries, rowIndex, side, "P1")
           p2Entry == FindEntry(currentEntries, rowIndex, side, "P2")
           found == SelectSeq(<<p1Entry, p2Entry>>, LAMBDA e : e # NoEntry)
           reqs == [k \in DOMAIN found |->
                        Request(lockTime, "group", "DELETE", found[k].id,
                                [text |-> ""])]
       IN  /\ lockedSides' = [lockedSides EXCEPT ![side] = lockTime]
           /\ entries' = [i \in DOMAIN entries |->
                            IF entries[i].side = side /\ entries[i].rowIndex = rowIndex
                            THEN [entries[i] EXCEPT !.text = ""] ELSE entries[i]]
           /\ pendingOps' = pendingOps \cup {e.id : e \in Range(found)}
           /\ inflight' = inflight \cup Range(reqs)
           /\ storeCalls' = storeCalls \o [k \in DOMAIN reqs |-> StoreCall(reqs[k])]
           /\ calls' = calls \cup
                {[tok |-> lockTime, kind |-> "side", key |-> side,
                  ids |-> {e.id : e \in Range(found)}]}
    /\ stateReplaced' = TRUE
    /\ ops' = ops + 1
    /\ UNCHANGED <<store, history, error, loading, pusherRef, rateVars, lockedEntries, isTyping,
                   typingTimeout, debounceTimer, timers, nextPoll,
                   abortController, now, faults>>

\* The lock tests of the entry-updated handler, part_006:193-211.
RT_entryLocked(entryId) ==
    lockedEntries[entryId] # NoLock /\ now - lockedEntries[entryId][1] < LockWindow
RT_sideLocked(entrySide) ==
    lockedSides[entrySide] # NoLock /\ now - lockedSides[entrySide][1] < LockWindow
RT_skipsEntryUpdated(data) ==
    \/ data.id \in pendingOps
    \/ data.id \in Ids /\ RT_entryLocked(data.id)
    \/ data.side \in Sides /\ RT_sideLocked(data.side)

\* The updater of the entry-updated handler, part_006:214-223.
RT_applyEntryUpdated(prev, data) ==
    LET current == {i \in DOMAIN prev : prev[i].id = data.id}
        first == prev[CHOOSE i \in current : \A j \in current : i <= j]
    IN  IF current # {} /\ first.text = data.text /\ first.checked = data.checked
        THEN prev
        ELSE ReplaceEntry(prev, data.id, data)

\* What another party may publish for a slot: its record with any text and
\* checked value.
BroadcastEntries ==
    {[store[i] EXCEPT !.text = "a", !.checked = c] :
        i \in BroadcastIds \cap DOMAIN store, c \in BOOLEAN}

\* channel.bind('entry-updated', ...), part_006:188-224.
RT_onEntryUpdated(data) ==
    /\ pusherRef /\ ops < MaxOps /\ data \in BroadcastEntries
    /\ IF RT_skipsEntryUpdated(data)
       THEN UNCHANGED entries /\ stateReplaced' = FALSE
       ELSE /\ entries' = RT_applyEntryUpdated(entries, data)
            /\ stateReplaced' =
                    ~(\E i \in DOMAIN entries :
                        /\ entries[i].id = data.id
                        /\ \A j \in DOMAIN entries : entries[j].id = data.id => i <= j
                        /\ entries[i].text = data.text
                        /\ entries[i].checked = data.checked)
    /\ ops' = ops + 1
    /\ UNCHANGED <<store, history, error, loading, pusherRef, rateVars, pendingOps, lockedEntries,
                   lockedSides, isTyping, typingTimeout, debounceTimer, timers,
                   inflight, calls, nextPoll, abortController, storeCalls, now,
                   faults>>

\* The test of the sync-all handler, part_006:231.
RT_appliesSyncAll ==
    pendingOps = {} /\ \A i \in Ids : lockedEntries[i] = NoLock

\* channel.bind('sync-all', ...), part_006:227-236.  The payload is the store
\* as POST /api/queue read it (route.ts:119-124).
RT_onSyncAll(data) ==
    /\ pusherRef /\ ops < MaxOps /\ data = findMany(store)
    /\ IF RT_appliesSyncAll
       THEN entries' = data /\ stateReplaced' = TRUE
       ELSE UNCHANGED entries /\ stateReplaced' = FALSE
    /\ ops' = ops + 1
    /\ UNCHANGED <<store, history, error, loading, pusherRef, rateVars, pendingOps, lockedEntries,
                   lockedSides, isTyping, typingTimeout, debounceTimer, timers,
                   inflight, calls, nextPoll, abortController, storeCalls, now,
                   faults>>

\* ------------------- polling client (QueueBoard.tsx:377-716)
\* An interval callback that starts the next poll and lets the previous one
\* run on.
PL_poll_overlapping ==
    /\ nextPoll # -1 /\ nextPoll <= now
    /\ LET tok == <<now, -1>>
           r == Request(tok, "fetchEntries", "GET", 0, [signal |-> tok])
       IN  /\ inflight' = inflight \cup {r}
           /\ abortController' = tok
    /\ nextPoll' = now + PollInterval
    /\ UNCHANGED <<store, history, entries, error, loading, stateReplaced, pusherRef, rateVars,
                   pendingOps, lockedEntries, lockedSides, isTyping,
                   typingTimeout, debounceTimer, timers, calls, storeCalls, now,
                   ops, faults>>

\* The setInterval callback, QueueBoard.tsx:509-522: the previous controller
\* is aborted (a fetch still pending on its signal rejects with AbortError),
\* a new one is created and fetchEntries is called with its signal.
PL_poll ==
    /\ nextPoll # -1 /\ nextPoll <= now
    /\ LET tok == <<now, -1>>
           r == Request(tok, "fetchEntries", "GET", 0, [signal |-> tok])
           aborted(q) == q.kind = "fetchEntries" /\ q.tok = abortController
       IN  /\ inflight' = {IF aborted(q)
                            THEN [q EXCEPT !.stage = "response", !.status = "aborted",
                                           !.list = <<>>, !.retryAfter = 0]
                            ELSE q : q \in inflight} \cup {r}
           /\ abortController' = tok
    /\ nextPoll' = now + PollInterval
    /\ UNCHANGED <<store, history, entries, error, loading, stateReplaced, pusherRef, rateVars,
                   pendingOps, lockedEntries, lockedSides, isTyping,
                   typingTimeout, debounceTimer, timers, calls, storeCalls, now,
                   ops, faults>>

\* The message of QueueBoard.tsx:399, `Rate limit exceeded. Retry in ${retryAfter}s`.
RetryHint(retryAfter) ==
    "Rate limit exceeded. Retry in " \o ToString(retryAfter) \o "s"

\* fetchEntries without the branch for status 429: the response is handled as
\* any other response that is not ok.
PL_fetchEntriesResponse_no429(r) ==
    /\ r \in inflight /\ r.stage = "response" /\ r.kind = "fetchEntries"
    /\ inflight' = inflight \ {r}
    /\ CASE r.status = "aborted" ->
                UNCHANGED <<entries, error, loading, timers>> /\ stateReplaced' = FALSE
         [] r.status \in {"ratelimited", "error"} ->
                /\ error' = "Failed to fetch data"
                /\ entries' = <<>> /\ stateReplaced' = TRUE
                /\ loading' = FALSE
                /\ UNCHANGED timers
         [] r.status = "ok" ->
                /\ IF ~isTyping
                   THEN entries' = r.list /\ stateReplaced' = TRUE
                   ELSE UNCHANGED entries /\ stateReplaced' = FALSE
                /\ error' = ""
                /\ loading' = FALSE
                /\ UNCHANGED timers
         [] r.status = "nonarray" ->
                /\ entries' = <<>> /\ stateReplaced' = TRUE
                /\ error' = "Invalid data format received from server"
                /\ loading' = FALSE
                /\ UNCHANGED timers
         [] OTHER ->
                /\ error' = "Cannot connect to server"
                /\ entries' = <<>> /\ stateReplaced' = TRUE
                /\ loading' = FALSE
                /\ UNCHANGED timers
    /\ UNCHANGED <<store, history, pusherRef, rateVars, pendingOps, lockedEntries, lockedSides,
                   isTyping, typingTimeout, debounceTimer, calls, nextPoll,
                   abortController, storeCalls, now, ops, faults>>

\* fetchEntries from the await of fetch on, QueueBoard.tsx:391-435.
PL_fetchEntriesResponse(r) ==
    /\ r \in inflight /\ r.stage = "response" /\ r.kind = "fetchEntries"
    /\ inflight' = inflight \ {r}
    /\ CASE r.status = "aborted" ->
                UNCHANGED <<entries, error, loading, timers>> /\ stateReplaced' = FALSE
         [] r.status = "ratelimited" ->
                /\ error' = RetryHint(r.retryAfter)
                /\ timers' = timers \cup
                        {Timer("clearError", "", r.tok, now + 2 * r.retryAfter)}
                /\ UNCHANGED <<entries, loading>> /\ stateReplaced' = FALSE
         [] r.status = "error" ->
                /\ error' = "Failed to fetch data"
                /\ entries' = <<>> /\ stateReplaced' = TRUE
                /\ loading' = FALSE
                /\ UNCHANGED timers
         [] r.status = "ok" ->
                /\ IF ~isTyping
                   THEN entries' = r.list /\ stateReplaced' = TRUE
                   ELSE UNCHANGED entries /\ stateReplaced' = FALSE
                /\ error' = ""
                /\ loading' = FALSE
                /\ UNCHANGED timers
         [] r.status = "nonarray" ->
                /\ entries' = <<>> /\ stateReplaced' = TRUE
                /\ error' = "Invalid data format received from server"
                /\ loading' = FALSE
                /\ UNCHANGED timers
         [] OTHER ->
                /\ error' = "Cannot connect to server"
                /\ entries' = <<>> /\ stateReplaced' = TRUE
                /\ loading' = FALSE
                /\ UNCHANGED timers
    /\ UNCHANGED <<store, history, pusherRef, rateVars, pendingOps, lockedEntries, lockedSides,
                   isTyping, typingTimeout, debounceTimer, calls, nextPoll,
                   abortController, storeCalls, now, ops, faults>>

\* updateEntry(id, updates), QueueBoard.tsx:533-539: the fetch is issued.
PL_updateEntry(tok, id, updates) == Request(tok, "updateEntry", "PATCH", id, updates)

\* The rest of updateEntry, QueueBoard.tsx:541-550: unless the fetch rejected
\* (PATCH is never answered 429), the updates are written into the view.
PL_updateEntryResponse(r) ==
    /\ r \in inflight /\ r.stage = "response" /\ r.kind = "updateEntry"
    /\ inflight' = inflight \ {r}
    /\ IF r.status \in {"neterr", "ratelimited"}
       THEN UNCHANGED entries /\ stateReplaced' = FALSE
       ELSE entries' = MapEntry(entries, r.id, r.body) /\ stateReplaced' = TRUE
    /\ UNCHANGED <<store, history, error, loading, pusherRef, rateVars, pendingOps, lockedEntries,
                   lockedSides, isTyping, typingTimeout, debounceTimer, timers,
                   calls, nextPoll, abortController, storeCalls, now, ops, faults>>

\* handleTextInput without the debounce: every keystroke calls updateEntry
\* (as the first version of the component does).
PL_handleTextInput_undebounced(id, rawText) ==
    /\ ops < MaxOps /\ id \in InputsRendered /\ rawText \in RawTexts
    /\ LET normalized == normalizeToEnglish(rawText)
           r == PL_updateEntry(<<now, ops + 1>>, id, [text |-> normalized])
       IN  /\ isTyping' = TRUE
           /\ typingTimeout' = now + TypingDelay
           /\ entries' = MapEntry(entries, id, [text |-> normalized])
           /\ inflight' = inflight \cup {r}
           /\ storeCalls' = Append(storeCalls, StoreCall(r))
    /\ stateReplaced' = TRUE
    /\ ops' = ops + 1
    /\ UNCHANGED <<store, history, error, loading, pusherRef, rateVars, pendingOps, lockedEntries,
                   lockedSides, debounceTimer, timers, calls, nextPoll,
                   abortController, now, faults>>

\* handleTextInput(id, rawText), QueueBoard.tsx:562-583.
PL_handleTextInput(id, rawText) ==
    /\ ops < MaxOps /\ id \in InputsRendered /\ rawText \in RawTexts
    /\ LET normalized == normalizeToEnglish(rawText)
       IN  /\ isTyping' = TRUE
           /\ typingTimeout' = now + TypingDelay
           /\ entries' = MapEntry(entries, id, [text |-> normalized])
           /\ debounceTimer' = debounce(id, normalized)
    /\ stateReplaced' = TRUE
    /\ ops' = ops + 1
    /\ UNCHANGED <<store, history, error, loading, pusherRef, rateVars, pendingOps, lockedEntries,
                   lockedSides, timers, inflight, calls, nextPoll,
                   abortController, storeCalls, now, faults>>

\* A typing timer whose callback leaves the flag set.
PL_typingTimeout_stale ==
    /\ typingTimeout # -1 /\ typingTimeout <= now
    /\ isTyping' = isTyping
    /\ typingTimeout' = -1
    /\ UNCHANGED <<store, history, entries, error, loading, stateReplaced, pusherRef,
                   rateVars, pendingOps, lockedEntries, lockedSides, debounceTimer,
                   timers, inflight, calls, nextPoll, abortController, storeCalls,
                   now, ops, faults>>

\* The callback of typingTimeoutRef, QueueBoard.tsx:574-576.
PL_typingTimeout ==
    /\ typingTimeout # -1 /\ typingTimeout <= now
    /\ isTyping' = FALSE
    /\ typingTimeout' = -1
    /\ UNCHANGED <<store, history, entries, error, loading, stateReplaced, pusherRef, rateVars,
                   pendingOps, lockedEntries, lockedSides, debounceTimer, timers,
                   inflight, calls, nextPoll, abortController, storeCalls, now,
                   ops, faults>>

\* A debounced callback that also ends the typing state.
PL_debouncedUpdateText_clearing ==
    /\ debounceTimer # NoTimer /\ debounceTimer.due <= now
    /\ LET r == PL_updateEntry(<<now, 0>>, debounceTimer.id,
                               [text |-> debounceTimer.text])
       IN  /\ inflight' = inflight \cup {r}
           /\ storeCalls' = Append(storeCalls, StoreCall(r))
    /\ debounceTimer' = NoTimer
    /\ isTyping' = FALSE
    /\ UNCHANGED <<store, history, entries, error, loading, stateReplaced, pusherRef, rateVars,
                   pendingOps, lockedEntries, lockedSides,
                   typingTimeout, timers, calls, nextPoll, abortController, now,
                   ops, faults>>

\* The debounce timer fires: debouncedUpdateText's callback, QueueBoard.tsx:555-557.
PL_debouncedUpdateText ==
    /\ debounceTimer # NoTimer /\ debounceTimer.due <= now
    /\ LET r == PL_updateEntry(<<now, 0>>, debounceTimer.id,
                               [text |-> debounceTimer.text])
       IN  /\ inflight' = inflight \cup {r}
           /\ storeCalls' = Append(storeCalls, StoreCall(r))
    /\ debounceTimer' = NoTimer
    /\ UNCHANGED <<store, history, entries, error, loading, stateReplaced, pusherRef, rateVars,
                   pendingOps, lockedEntries, lockedSides, isTyping,
                   typingTimeout, timers, calls, nextPoll, abortController, now,
                   ops, faults>>

\* Array.from(rowGroups.keys()).sort((a, b) => a - b), QueueBoard.tsx:624.
RECURSIVE sortedRowIndices(_)
sortedRowIndices(S) ==
    IF S = {} THEN <<>>
    ELSE LET m == CHOOSE x \in S : \A y \in S : x <= y
         IN  <<m>> \o sortedRowIndices(S \ {m})

\* newIndices, QueueBoard.tsx:626-636: the other rows of the side are numbered
\* from 0 in ascending order and the unchecked row gets the next number.
PL_newIndices(sideEntries, rowIndex) ==
    LET otherRowIndices == SelectSeq(sortedRowIndices({e.rowIndex : e \in Range(sideEntries)}),
                                     LAMBDA idx : idx # rowIndex)
    IN  [old \in Range(otherRowIndices) \cup {rowIndex} |->
            IF old = rowIndex THEN Len(otherRowIndices)
            ELSE (CHOOSE k \in DOMAIN otherRowIndices : otherRowIndices[k] = old) - 1]

\* An optimistic update of the uncheck branch that unchecks every row it moves.
PL_uncheckOptimistic_clearing(prev, rowIndex, side, newIndices) ==
    [i \in DOMAIN prev |->
        IF prev[i].side = side /\ prev[i].rowIndex \in DOMAIN newIndices
        THEN [prev[i] EXCEPT !.rowIndex = newIndices[prev[i].rowIndex],
                             !.checked = FALSE]
        ELSE prev[i]]

\* The optimistic update of the uncheck branch, QueueBoard.tsx:639-651.
PL_uncheckOptimistic(prev, rowIndex, side, newIndices) ==
    [i \in DOMAIN prev |->
        IF prev[i].side = side /\ prev[i].rowIndex \in DOMAIN newIndices
        THEN [prev[i] EXCEPT !.rowIndex = newIndices[prev[i].rowIndex],
                             !.checked = IF prev[i].rowIndex = rowIndex
                                         THEN FALSE ELSE prev[i].checked]
        ELSE prev[i]]

\* The dispatch of the realtime board: a call for every slot of the side.
PL_checkUpdates_wholeSide(currentEntries, rowIndex, side) ==
    LET called == SelectSeq(currentEntries, LAMBDA e : e.side = side)
    IN  [k \in DOMAIN called |->
            <<called[k].id, [checked |-> called[k].rowIndex = rowIndex]>>]

\* The updateEntry calls of the check branch, QueueBoard.tsx:601-609, as
\* <<id, updates>> in the order they are issued.
PL_checkUpdates(currentEntries, rowIndex, side) ==
    LET entriesToUpdate == SelectSeq(currentEntries, LAMBDA e : e.side = side)
        called == SelectSeq(entriesToUpdate,
                            LAMBDA e : e.rowIndex = rowIndex \/ e.checked)
    IN  [k \in DOMAIN called |->
            <<called[k].id, [checked |-> called[k].rowIndex = rowIndex]>>]

\* The updateEntry calls that reorder the other rows, QueueBoard.tsx:662-668.
RECURSIVE PL_reorderUpdates(_, _, _)
PL_reorderUpdates(otherRowIndices, sideEntries, newIndices) ==
    IF otherRowIndices = <<>> THEN <<>>
    ELSE LET oldRowIndex == Head(otherRowIndices)
             rowEntries == SelectSeq(sideEntries, LAMBDA e : e.rowIndex = oldRowIndex)
         IN  [k \in DOMAIN rowEntries |->
                 <<rowEntries[k].id, [rowIndex |-> newIndices[oldRowIndex]]>>]
             \o PL_reorderUpdates(Tail(otherRowIndices), sideEntries, newIndices)

\* The updateEntry calls of the uncheck branch, QueueBoard.tsx:654-674.
PL_uncheckUpdates(currentEntries, rowIndex, side) ==
    LET sideEntries == SelectSeq(currentEntries, LAMBDA e : e.side = side)
        newIndices == PL_newIndices(sideEntries, rowIndex)
        uncheckedRowEntries == SelectSeq(sideEntries, LAMBDA e : e.rowIndex = rowIndex)
        otherRowIndices == SelectSeq(sortedRowIndices({e.rowIndex : e \in Range(sideEntries)}),
                                     LAMBDA idx : idx # rowIndex)
    IN  [k \in DOMAIN uncheckedRowEntries |->
            <<uncheckedRowEntries[k].id, [checked |-> FALSE]>>]
        \o PL_reorderUpdates(otherRowIndices, sideEntries, newIndices)
        \o [k \in DOMAIN uncheckedRowEntries |->
            <<uncheckedRowEntries[k].id, [rowIndex |-> newIndices[rowIndex]]>>]

\* The body of handleCheckboxChange(rowIndex, side, checked),
\* QueueBoard.tsx:586-679, up to the await of Promise.all (nothing follows
\* it), for any checked it is called with.  `entries` in the handler is the
\* rendered state.
PL_checkboxHandler(rowIndex, side, checked) ==
    /\ ops < MaxOps /\ RowRendered(rowIndex, side)
    /\ LET tok == <<now, ops + 1>>
           sideEntries == SelectSeq(entries, LAMBDA e : e.side = side)
           updates == IF checked THEN PL_checkUpdates(entries, rowIndex, side)
                      ELSE PL_uncheckUpdates(entries, rowIndex, side)
           reqs == [k \in DOMAIN updates |->
                        PL_updateEntry(tok, updates[k][1], updates[k][2])]
       IN  /\ entries' = IF checked
                         THEN checkOptimistic(entries, rowIndex, side)
                         ELSE PL_uncheckOptimistic(entries, rowIndex, side,
                                                   PL_newIndices(sideEntries, rowIndex))
           /\ inflight' = inflight \cup Range(reqs)
           /\ storeCalls' = storeCalls \o [k \in DOMAIN reqs |-> StoreCall(reqs[k])]
    /\ stateReplaced' = TRUE
    /\ ops' = ops + 1
    /\ UNCHANGED <<store, history, error, loading, pusherRef, rateVars, pendingOps, lockedEntries,
                   lockedSides, isTyping, typingTimeout, debounceTimer, timers,
                   calls, nextPoll, abortController, now, faults>>

\* The checkbox of a row, QueueBoard.tsx:813-818 and :894-899: it shows
\* p1Entry.checked and its onChange hands the toggled value to the handler.
PL_handleCheckboxChange(rowIndex, side, checked) ==
    /\ checked = ~getEntry(rowIndex, side, "P1").checked
    /\ PL_checkboxHandler(rowIndex, side, checked)

\* clearEntry(id), QueueBoard.tsx:682-691, up to the await of fetch; kind names
\* the caller that awaits it.  The fetch the invocation tok has been awaiting,
\* if any, has returned.
PL_clearEntryCall(tok, kind, id) ==
    LET r == Request(tok, kind, "DELETE", id, [text |-> ""])
    IN  /\ entries' = MapEntry(entries, id, [text |-> ""])
        /\ stateReplaced' = TRUE
        /\ inflight' = (inflight \ {q \in inflight : q.tok = tok}) \cup {r}
        /\ storeCalls' = Append(storeCalls, StoreCall(r))

\* The clear button of a slot.
PL_clearEntry(id) ==
    /\ ops < MaxOps /\ id \in InputsRendered
    /\ PL_clearEntryCall(<<now, ops + 1>>, "clearEntry", id)
    /\ ops' = ops + 1
    /\ UNCHANGED <<store, history, error, loading, pusherRef, rateVars, pendingOps, lockedEntries,
                   lockedSides, isTyping, typingTimeout, debounceTimer, timers,
                   calls, nextPoll, abortController, now, faults>>

\* The rest of clearEntry, QueueBoard.tsx:693-699: nothing is read.
PL_clearEntryResponse(r) ==
    /\ r \in inflight /\ r.stage = "response" /\ r.kind = "clearEntry"
    /\ inflight' = inflight \ {r}
    /\ stateReplaced' = FALSE
    /\ UNCHANGED <<store, history, entries, error, loading, pusherRef, rateVars, pendingOps,
                   lockedEntries, lockedSides, isTyping, typingTimeout,
                   debounceTimer, timers, calls, nextPoll, abortController,
                   storeCalls, now, ops, faults>>

\* clearRow(rowIndex, side), QueueBoard.tsx:703-707: both entries are looked
\* up in the rendered state, then clearEntry of the P1 entry is awaited.
PL_clearRow(rowIndex, side) ==
    /\ ops < MaxOps /\ RowRendered(rowIndex, side)
    /\ LET tok == <<now, ops + 1>>
           p1Entry == getEntry(rowIndex, side, "P1")
           p2Entry == getEntry(rowIndex, side, "P2")
       IN  /\ PL_clearEntryCall(tok, "clearRow", p1Entry.id)
           /\ calls' = calls \cup
                {[tok |-> tok, kind |-> "clearRow", key |-> side, ids |-> {p2Entry.id}]}
    /\ ops' = ops + 1
    /\ UNCHANGED <<store, history, error, loading, pusherRef, rateVars, pendingOps, lockedEntries,
                   lockedSides, isTyping, typingTimeout, debounceTimer, timers,
                   nextPoll, abortController, now, faults>>

\* clearRow resumes when the first clearEntry has returned (clearEntry catches
\* its errors): QueueBoard.tsx:708, clearEntry of the P2 entry.
PL_clearRowResume(r) ==
    /\ r \in inflight /\ r.stage = "response" /\ r.kind = "clearRow"
    /\ \E c \in calls :
            /\ c.tok = r.tok
            /\ calls' = calls \ {c}
            /\ PL_clearEntryCall(r.tok, "clearEntry", CHOOSE i \in c.ids : TRUE)
    /\ UNCHANGED <<store, history, error, loading, pusherRef, rateVars, pendingOps, lockedEntries,
                   lockedSides, isTyping, typingTimeout, debounceTimer, timers,
                   nextPoll, abortController, now, ops, faults>>

\* A grid in use: players' names stand in the first slots of the left side.
SeededGrid ==
    [i \in Ids |->
        IF i = IdOf(0, "left", "P1") THEN [InitialGrid[i] EXCEPT !.text = "a"]
        ELSE IF i = IdOf(NumRows - 1, "left", "P2") THEN [InitialGrid[i] EXCEPT !.text = "b"]
        ELSE InitialGrid[i]]

\* The seeded grid with row 0 of the left side checked.
CheckedGrid ==
    [i \in Ids |->
        IF SeededGrid[i].side = "left" /\ SeededGrid[i].rowIndex = 0
        THEN [SeededGrid[i] EXCEPT !.checked = TRUE] ELSE SeededGrid[i]]

\* The history of a store that was filled slot by slot, in the order of the
\* ids, by PATCH calls on the initialized grid.
RECURSIVE SeedHistory(_, _)
SeedHistory(st, i) ==
    IF i \notin Ids THEN <<>>
    ELSE (IF i \notin DOMAIN st THEN <<>>
          ELSE PATCH_logs(InitialGrid[i], [text |-> st[i].text])
               \o PATCH_logs(InitialGrid[i], [checked |-> st[i].checked]))
         \o SeedHistory(st, i + 1)

\* The state once the component has mounted and its first fetchEntries has
\* delivered the initialized grid: the view equals the store, nothing is in
\* flight, no lock is held.
InitCommon ==
    /\ store \in {InitialGrid, SeededGrid, CheckedGrid}
    /\ history \in {Untracked, SeedHistory(store, 1)}
    /\ entries = findMany(store)
    /\ error = "" /\ loading = FALSE /\ stateReplaced = FALSE
    /\ pendingOps = {}
    /\ lockedEntries = [i \in Ids |-> NoLock]
    /\ lockedSides = [s \in Sides |-> NoLock]
    /\ isTyping = FALSE /\ typingTimeout = -1
    /\ debounceTimer = NoTimer
    /\ timers = {} /\ inflight = {} /\ calls = {}
    /\ abortController = NoToken
    /\ storeCalls = <<>>
    /\ now = 0 /\ ops = 0 /\ faults = 0
    /\ InitRate

InitRT ==
    /\ InitCommon /\ store = InitialGrid /\ history = Untracked
    /\ pusherRef = TRUE /\ nextPoll = -1

NextRT ==
    \/ \E i \in UserIds : RT_handleTextInput(i, "á")
    \/ RT_debouncedUpdateText
    \/ \E r \in inflight : RT_updateEntryResponse(r)
    \/ \E row \in Rows, s \in UserSides, c \in BOOLEAN :
            RT_handleCheckboxChange(row, s, c)
    \/ \E r \in inflight, ok \in BOOLEAN : RT_groupSettle(r, ok)
    \/ \E s \in UserSides : RT_clearRow(0, s)
    \/ \E d \in BroadcastEntries : RT_onEntryUpdated(d)
    \/ RT_onSyncAll(findMany(store))
    \/ \E r \in inflight : ServerOk(r)
    \/ \E r \in inflight : ServerFault(r, "neterr", 0)
    \/ \E t \in timers : TimerFire(t)
    \/ Tick

SpecRT == InitRT /\ [][NextRT]_vars

\* The polling client: the first tick of the polling interval falls at the
\* start of the behaviour.
InitPL ==
    /\ InitCommon /\ store = SeededGrid /\ history = Untracked
    /\ pusherRef = FALSE /\ nextPoll = 0

\* Checking and unchecking rows, with the store calls in any order.
NextCheck ==
    \/ \E row \in Rows, s \in UserSides, c \in BOOLEAN :
            PL_handleCheckboxChange(row, s, c)
    \/ \E r \in inflight : PL_updateEntryResponse(r)
    \/ \E r \in inflight : ServerOk(r)
    \/ \E r \in inflight : ServerFault(r, "neterr", 0)

SpecCheck == InitPL /\ [][NextCheck]_vars

\* Unchecking the checked row, with its store calls and a poll in any order.
InitReorder ==
    /\ InitCommon /\ store = CheckedGrid /\ history = Untracked
    /\ pusherRef = FALSE /\ nextPoll = 0

NextReorder ==
    \/ \E row \in Rows, s \in UserSides :
            ops < MaxUnchecks /\ PL_handleCheckboxChange(row, s, FALSE)
    \/ \E r \in inflight : PL_updateEntryResponse(r)
    \/ PL_poll
    \/ \E r \in inflight : PL_fetchEntriesResponse(r)
    \/ \E r \in inflight : ServerOk(r)

SpecReorder == InitReorder /\ [][NextReorder]_vars

\* The polling board and its store, with or without a checked row, and the
\* check of a row of a side.
InitOneCheck ==
    /\ InitCommon /\ store \in {SeededGrid, CheckedGrid} /\ history = Untracked
    /\ pusherRef = FALSE /\ nextPoll = 0

NextOneCheck ==
    \/ \E row \in Rows, s \in Sides :
            ops < MaxChecks /\ PL_handleCheckboxChange(row, s, TRUE)
    \/ \E r \in inflight : PL_updateEntryResponse(r)
    \/ PL_poll
    \/ \E r \in inflight : PL_fetchEntriesResponse(r)
    \/ \E r \in inflight : ServerOk(r)

SpecOneCheck == InitOneCheck /\ [][NextOneCheck]_vars

\* Typing and clearing, with the timers, the store calls and a poll.
NextPoll ==
    \/ \E i \in TypedIds, t \in TypedTexts : PL_handleTextInput(i, t)
    \/ PL_typingTimeout
    \/ PL_debouncedUpdateText
    \/ \E r \in inflight : PL_updateEntryResponse(r)
    \/ \E i \in UserIds : PL_clearEntry(i)
    \/ \E r \in inflight : PL_clearEntryResponse(r)
    \/ \E s \in UserSides : PL_clearRow(0, s)
    \/ \E r \in inflight : PL_clearRowResume(r)
    \/ PL_poll
    \/ \E r \in inflight : PL_fetchEntriesResponse(r)
    \/ \E r \in inflight : ServerOk(r)
    \/ \E r \in inflight :
            \E st \in FaultStatuses(r), ra \in RetryAfterValues \cup {0} :
                ServerFault(r, st, ra)
    \/ \E t \in timers : TimerFire(t)
    \/ Tick

SpecPoll == InitPL /\ [][NextPoll]_vars

\* ------------------------------------- the route handlers, step by step
\* The specifications of the boards take a route handler as one step; here
\* every await of a handler is a step, and the calls of several clients
\* interleave at the store.

\* The unframed variables of a step of a route handler.
boardVars == <<entries, error, loading, stateReplaced, pusherRef, pendingOps,
                lockedEntries, lockedSides, isTyping, typingTimeout,
                debounceTimer, timers, nextPoll, abortController, now, faults>>
clientVars == <<boardVars, storeCalls>>

EmptyStore == [i \in {} |-> NoEntry]

\* The rows of QueueEntry that hold the identity (rowIndex, side, position).
Holding(st, e) == {i \in DOMAIN st : SameKey(st[i], e)}

\* "id" SERIAL: a key no other row has.  The model names the k-th row created
\* for an identity IdOf(identity) + k * (size of the grid).
nextId(st, e) ==
    IdOf(e.rowIndex, e.side, e.position)
        + Cardinality(Ids) * Cardinality(Holding(st, e))

\* INSERT INTO "QueueEntry": the row is created with a fresh id.
create(st, e) ==
    LET id == nextId(st, e)
    IN  [i \in DOMAIN st \cup {id} |->
            IF i \in DOMAIN st THEN st[i]
            ELSE QueueEntry(id, e.rowIndex, e.side, e.position, e.text, e.checked)]

\* An INSERT into a table without the unique index.
createUnique_unindexed(st, e) == [ok |-> TRUE, store |-> create(st, e)]

\* INSERT under QueueEntry_rowIndex_side_position_key (migration.sql:28-29):
\* a row with the identity of an existing row is rejected.

createUnique(st, e) ==
    IF Holding(st, e) # {} THEN [ok |-> FALSE, store |-> st]
    ELSE [ok |-> TRUE, store |-> create(st, e)]

\* A client calls fetch() on a route.
Fetch(method, id, body) ==
    /\ ops < MaxRequests
    /\ ops' = ops + 1
    /\ LET r == Request(<<now, ops>>, "store", method, id, body)
       IN  /\ inflight' = inflight \cup {r}
           /\ storeCalls' = Append(storeCalls, StoreCall(r))
    /\ UNCHANGED <<store, history, calls>>
    /\ UNCHANGED <<boardVars, rateVars>>

\* prisma.queueEntry.findUnique({where: {id}}) of PATCH (route.ts:16-22) and
\* of DELETE (route.ts:79-85); a missing entry is answered 404.
findUnique(r) ==
    /\ r \in inflight /\ r.kind = "store" /\ r.stage = "sent"
    /\ r.method \in {"PATCH", "DELETE"}
    /\ inflight' = IF r.id \in DOMAIN store
                   THEN (inflight \ {r}) \cup
                            {[r EXCEPT !.stage = "found", !.entry = store[r.id]]}
                   ELSE inflight \ {r}
    /\ UNCHANGED <<store, history, calls, ops>>
    /\ UNCHANGED <<clientVars, rateVars>>

\* The fields of an entry that differ between two stores.
Changed(st, st2, id) ==
    {f \in {"rowIndex", "text", "checked"} :
        id \notin DOMAIN st2 \/ st[id][f] # st2[id][f]}

\* prisma.queueEntry.update of PATCH, route.ts:25-32.
PATCH_update(r) ==
    /\ r \in inflight /\ r.kind = "store" /\ r.stage = "found"
    /\ r.method = "PATCH"
    /\ store' = PATCH(store, r.id, r.body)
    /\ inflight' = (inflight \ {r}) \cup
            {[r EXCEPT !.stage = "updated",
                       !.changed = Changed(store, store', r.id)]}
    /\ UNCHANGED <<history, calls, ops>>
    /\ UNCHANGED <<clientVars, rateVars>>

\* "Log the change" of PATCH, route.ts:34-61, and the response.
PATCH_log(r) ==
    /\ r \in inflight /\ r.kind = "store" /\ r.stage = "updated"
    /\ r.method = "PATCH"
    /\ history' = Created(history, PATCH_logs(r.entry, r.body))
    /\ inflight' = inflight \ {r}
    /\ UNCHANGED <<store, calls, ops>>
    /\ UNCHANGED <<clientVars, rateVars>>

\* prisma.queueEntry.update of DELETE, route.ts:88-94.
DELETE_update(r) ==
    /\ r \in inflight /\ r.kind = "store" /\ r.stage = "found"
    /\ r.method = "DELETE"
    /\ store' = DELETE(store, r.id)
    /\ inflight' = (inflight \ {r}) \cup
            {[r EXCEPT !.stage = "updated",
                       !.changed = Changed(store, store', r.id)]}
    /\ UNCHANGED <<history, calls, ops>>
    /\ UNCHANGED <<clientVars, rateVars>>

\* "Log the deletion" of DELETE, route.ts:96-108, and the response.
DELETE_log(r) ==
    /\ r \in inflight /\ r.kind = "store" /\ r.stage = "updated"
    /\ r.method = "DELETE"
    /\ history' = Created(history, DELETE_logs(r.entry))
    /\ inflight' = inflight \ {r}
    /\ UNCHANGED <<store, calls, ops>>
    /\ UNCHANGED <<clientVars, rateVars>>

\* POST /api/queue {action: "initialize"}, route.ts:85-117: the array of the
\* 12 x 2 x 2 entries is built (InitialGrid, in the order of the loops) and
\* Promise.all starts one upsert per entry; the handler is suspended in the
\* await.  next is the first entry whose query has not got a connection yet.
POST_initialize(r) ==
    /\ r \in inflight /\ r.kind = "store" /\ r.stage = "sent"
    /\ r.method = "POST"
    /\ inflight' = (inflight \ {r}) \cup {[r EXCEPT !.stage = "upserting"]}
    /\ calls' = calls \cup
            {[tok |-> r.tok, kind |-> "initialize", next |-> 1, running |-> {},
              failed |-> FALSE]}
    /\ UNCHANGED <<store, history, ops>>
    /\ UNCHANGED <<clientVars, rateVars>>

\* Queries of the upserts that hold a connection.
Running == UNION {{[tok |-> c.tok, u |-> u] : u \in c.running} :
                    c \in {d \in calls : d.kind = "initialize"}}

\* The queries of a Promise.all get their connections in the order of the
\* array.
upsert_start(c) ==
    /\ c \in calls /\ c.kind = "initialize"
    /\ c.next \in Ids
    /\ Cardinality(Running) < PoolSize
    /\ calls' = (calls \ {c}) \cup
            {[c EXCEPT !.next = @ + 1,
                       !.running = @ \cup {[i |-> c.next, phase |-> "upsert"]}]}
    /\ UNCHANGED <<store, history, inflight, ops>>
    /\ UNCHANGED <<clientVars, rateVars>>

\* An upsert whose update writes the text and checked of the entry.
upsert_overwriting(st, e) ==
    IF Holding(st, e) # {}
    THEN [i \in DOMAIN st |->
            IF SameKey(st[i], e) THEN Spread(st[i], [text |-> e.text, checked |-> e.checked])
            ELSE st[i]]
    ELSE create(st, e)

\* prisma.queueEntry.upsert({where: {rowIndex_side_position}, update: {},
\* create: entry}), route.ts:105-115, run by the database as one statement
\* (INSERT ... ON CONFLICT DO UPDATE): an existing row is left as it is.
upsert(st, e) == IF Holding(st, e) # {} THEN st ELSE create(st, e)

upsert_native(c, u) ==
    /\ c \in calls /\ c.kind = "initialize"
    /\ u \in c.running /\ u.phase = "upsert"
    /\ store' = upsert(store, InitialGrid[u.i])
    /\ calls' = (calls \ {c}) \cup {[c EXCEPT !.running = @ \ {u}]}
    /\ UNCHANGED <<history, inflight, ops>>
    /\ UNCHANGED <<clientVars, rateVars>>

\* The same upsert run by the client library as SELECT, then UPDATE or INSERT:
\* the SELECT.  With a row found the empty update changes nothing.
upsert_select(c, u) ==
    /\ c \in calls /\ c.kind = "initialize"
    /\ u \in c.running /\ u.phase = "upsert"
    /\ calls' = (calls \ {c}) \cup
            {[c EXCEPT !.running =
                IF Holding(store, InitialGrid[u.i]) # {} THEN @ \ {u}
                ELSE (@ \ {u}) \cup {[u EXCEPT !.phase = "insert"]}]}
    /\ UNCHANGED <<store, history, inflight, ops>>
    /\ UNCHANGED <<clientVars, rateVars>>

\* ... and the INSERT; a unique constraint violation rejects the upsert.
upsert_insert(c, u) ==
    /\ c \in calls /\ c.kind = "initialize"
    /\ u \in c.running /\ u.phase = "insert"
    /\ LET res == createUnique(store, InitialGrid[u.i])
       IN  /\ store' = res.store
           /\ calls' = (calls \ {c}) \cup
                {[c EXCEPT !.running = @ \ {u},
                           !.failed = @ \/ ~res.ok]}
    /\ UNCHANGED <<history, inflight, ops>>
    /\ UNCHANGED <<clientVars, rateVars>>

\* Every upsert of the call has settled.
Upserted(c) == c.next \notin Ids /\ c.running = {}

\* Promise.all resolves: findMany, triggerQueueUpdate (skipped without a
\* configured Pusher, pusher.ts:41-44) and the response, route.ts:119-126.
POST_resolve(r) ==
    /\ r \in inflight /\ r.kind = "store" /\ r.stage = "upserting"
    /\ ~pusherRef
    /\ \E c \in calls :
        /\ c.kind = "initialize" /\ c.tok = r.tok
        /\ Upserted(c) /\ ~c.failed
        /\ calls' = calls \ {c}
    /\ inflight' = inflight \ {r}
    /\ UNCHANGED <<store, history, ops>>
    /\ UNCHANGED <<clientVars, rateVars>>

\* Promise.all rejects with the first upsert that rejects and the handler
\* answers 500 (route.ts:130-136); the other upserts go on.
POST_reject(r) ==
    /\ r \in inflight /\ r.kind = "store" /\ r.stage = "upserting"
    /\ \E c \in calls : c.kind = "initialize" /\ c.tok = r.tok /\ c.failed
    /\ inflight' = inflight \ {r}
    /\ UNCHANGED <<store, history, calls, ops>>
    /\ UNCHANGED <<clientVars, rateVars>>

\* An initialization that stopped after its first rows (a function that timed
\* out), and one of them in use since.
PartialGrid ==
    [i \in {IdOf(0, "left", "P1"), IdOf(0, "left", "P2")} |->
        IF i = IdOf(0, "left", "P1")
        THEN [InitialGrid[i] EXCEPT !.text = "a", !.checked = TRUE]
        ELSE InitialGrid[i]]

\* The ids and the bodies of the calls of the clients.
StoreIds == {IdOf(0, "left", "P1"), IdOf(0, "left", "P2")}
Bodies == {[text |-> "a"], [text |-> ""], [checked |-> TRUE],
           [checked |-> FALSE], [rowIndex |-> NumRows - 1]}

\* The store and its clients' calls; no board is followed (its view is not
\* loaded, its refs are as constructed).
InitStore ==
    /\ store \in {EmptyStore, PartialGrid, SeededGrid}
    /\ history = SeedHistory(store, 1)
    /\ entries = <<>> /\ error = "" /\ loading = TRUE /\ stateReplaced = FALSE
    /\ pusherRef = FALSE /\ nextPoll = -1
    /\ pendingOps = {}
    /\ lockedEntries = [i \in Ids |-> NoLock]
    /\ lockedSides = [s \in Sides |-> NoLock]
    /\ isTyping = FALSE /\ typingTimeout = -1
    /\ debounceTimer = NoTimer
    /\ timers = {} /\ inflight = {} /\ calls = {}
    /\ abortController = NoToken
    /\ storeCalls = <<>>
    /\ now = 0 /\ ops = 0 /\ faults = 0
    /\ InitRate

NextStore ==
    \/ \E id \in StoreIds, body \in Bodies : Fetch("PATCH", id, body)
    \/ \E id \in StoreIds : Fetch("DELETE", id, [text |-> ""])
    \/ Fetch("POST", 0, [action |-> "initialize"])
    \/ \E r \in inflight : findUnique(r)
    \/ \E r \in inflight : PATCH_update(r)
    \/ \E r \in inflight : PATCH_log(r)
    \/ \E r \in inflight : DELETE_update(r)
    \/ \E r \in inflight : DELETE_log(r)
    \/ \E r \in inflight : POST_initialize(r)
    \/ \E c \in calls : upsert_start(c)
    \/ \E c \in calls : \E u \in c.running : upsert_native(c, u)
    \/ \E c \in calls : \E u \in c.running : upsert_select(c, u)
    \/ \E c \in calls : \E u \in c.running : upsert_insert(c, u)
    \/ \E r \in inflight : POST_resolve(r)
    \/ \E r \in inflight : POST_reject(r)

SpecStore == InitStore /\ [][NextStore]_vars

\* ------------------------- a realtime board and the calls of another client
\* triggerQueueUpdate(EVENTS.SYNC_ALL, {entries: allEntries}), route.ts:119-126
\* with pusher.ts:36-53, once Promise.all has resolved: the event sets out to
\* the subscribers of the channel and the response to the caller.  No other
\* route triggers an event.
POST_broadcast(r) ==
    /\ r \in inflight /\ r.kind = "store" /\ r.stage = "upserting"
    /\ pusherRef
    /\ \E c \in calls :
        /\ c.kind = "initialize" /\ c.tok = r.tok
        /\ Upserted(c) /\ ~c.failed
        /\ calls' = calls \ {c}
    /\ inflight' = (inflight \ {r}) \cup
            {[Request(r.tok, "sync-all", "EVENT", 0, r.body)
                EXCEPT !.stage = "event", !.list = findMany(store)]}
    /\ UNCHANGED <<store, history, ops>>
    /\ UNCHANGED <<clientVars, rateVars>>

\* channel.bind('sync-all', ...), part_006:227-236, on the event of a
\* POST_broadcast.
RT_syncAllDelivered(m) ==
    /\ m \in inflight /\ m.kind = "sync-all" /\ m.stage = "event"
    /\ inflight' = inflight \ {m}
    /\ IF RT_appliesSyncAll
       THEN entries' = m.list /\ stateReplaced' = TRUE
       ELSE UNCHANGED entries /\ stateReplaced' = FALSE
    /\ UNCHANGED <<store, history, error, loading, pusherRef, rateVars, pendingOps,
                   lockedEntries, lockedSides, isTyping, typingTimeout,
                   debounceTimer, timers, calls, nextPoll, abortController,
                   storeCalls, now, ops, faults>>

\* The realtime board has loaded the grid; another client calls the routes.
InitSync == InitRT

\* The steps of the route handlers and the delivery of their events.
Propagate ==
    \/ \E r \in inflight : findUnique(r)
    \/ \E r \in inflight : PATCH_update(r)
    \/ \E r \in inflight : PATCH_log(r)
    \/ \E r \in inflight : DELETE_update(r)
    \/ \E r \in inflight : DELETE_log(r)
    \/ \E r \in inflight : POST_initialize(r)
    \/ \E c \in calls : upsert_start(c)
    \/ \E c \in calls : \E u \in c.running : upsert_native(c, u)
    \/ \E r \in inflight : POST_broadcast(r)
    \/ \E m \in inflight : RT_syncAllDelivered(m)

NextSync ==
    \/ \E id \in StoreIds, body \in Bodies : Fetch("PATCH", id, body)
    \/ \E id \in StoreIds : Fetch("DELETE", id, [text |-> ""])
    \/ Fetch("POST", 0, [action |-> "initialize"])
    \/ Propagate

SpecSync == InitSync /\ [][NextSync]_vars

\* Every handler runs to its end and every event is delivered.
SpecSyncFair == SpecSync /\ WF_vars(Propagate)

\* ================================================================ claims

\* The rows of a side that hold a checked slot, in a list of entries.
CheckedRows(list, sd) ==
    {list[i].rowIndex : i \in {j \in DOMAIN list : list[j].side = sd /\ list[j].checked}}

\* C1: once every call of handleCheckboxChange has settled (no store call of
\* the client is in flight), the view holds at most one checked row-group on
\* each side.
C1_ViewOneCheckedRowOnceSettled ==
    inflight = {} => \A sd \in Sides : Cardinality(CheckedRows(entries, sd)) <= 1

\* C2: in the store, at most one row of a side is checked at any time, also
\* while the parallel store updates of one check operation are in flight.
C2_StoreOneCheckedRow ==
    \A sd \in Sides : Cardinality(CheckedRows(findMany(store), sd)) <= 1

\* A local edit of slot id is under way: its debounced store call is still to
\* be issued, or a store call for it has not returned yet.  Every lock of an
\* edit spans at least this window.
EditPending(id) ==
    \/ debounceTimer # NoTimer /\ debounceTimer.id = id
    \/ \E q \in inflight : q.method \in {"PATCH", "DELETE"} /\ q.id = id

\* What the view shows for slot id.
Shown(list, id) ==
    {<<list[i].text, list[i].checked>> : i \in {j \in DOMAIN list : list[j].id = id}}

\* C3: while a local edit of slot id is under way, a poll result (a snapshot
\* the server answered) delivered to the client does not change the text or
\* checked the view shows for id.
C3_PollKeepsSlotUnderEdit ==
    [][\A r \in inflight :
          (PL_fetchEntriesResponse(r) /\ r.status = "ok")
          => \A id \in Ids : EditPending(id) => Shown(entries', id) = Shown(entries, id)]_vars

\* C4: an entry-updated broadcast for a slot is discarded (the view stays as
\* it is) whenever the slot's id has a pending store call, or its per-id lock
\* is held, or the lock of its side is held (a lock is held from the moment a
\* handler sets it until its release timer deletes it).
C4_BroadcastDiscardedUnderLock ==
    [][\A d \in BroadcastEntries :
          (/\ RT_onEntryUpdated(d)
           /\ \/ d.id \in pendingOps
              \/ lockedEntries[d.id] # NoLock
              \/ lockedSides[d.side] # NoLock)
          => entries' = entries]_vars

\* C5: while the typing flag is set, no poll result changes any slot of the
\* view.
C5_NoPollAppliedWhileTyping ==
    [][\A r \in inflight :
          (PL_fetchEntriesResponse(r) /\ isTyping) => entries' = entries]_vars

\* The text updates among the store calls.
TextCalls(log) == SelectSeq(log, LAMBDA c : c.method = "PATCH" /\ "text" \in DOMAIN c.body)

\* C6: a burst of setText calls, each less than 500 ms after the one before,
\* produces exactly one store update: a call issues none and leaves the
\* normalized text of the latest call pending for 500 ms; a text update reaches
\* the store only when that delay is over, it is the only one and carries the
\* pending text; the delay is never overrun.
C6_BurstGivesOneStoreUpdate ==
    /\ [][\A i \in TypedIds, t \in TypedTexts :
            PL_handleTextInput(i, t)
            => /\ storeCalls' = storeCalls
               /\ debounceTimer' = [id |-> i, text |-> normalizeToEnglish(t),
                                    due |-> now + DebounceDelay]]_vars
    /\ [][TextCalls(storeCalls') # TextCalls(storeCalls)
          => /\ debounceTimer # NoTimer /\ debounceTimer.due = now
             /\ debounceTimer' = NoTimer
             /\ storeCalls' = Append(storeCalls,
                    [tok |-> <<now, 0>>, method |-> "PATCH", id |-> debounceTimer.id,
                     body |-> [text |-> debounceTimer.text]])]_vars
    /\ [](debounceTimer # NoTimer => now <= debounceTimer.due)

\* Two calls for slot 1 in the same 500 ms, the second with "c", have produced
\* one store update, issued one unit later and carrying "c" (the typing flag
\* has kept polls off the view, so the untouched P2 slot shows that both calls
\* were for slot 1).
C6_Witness ==
    /\ ops = 2 /\ isTyping
    /\ storeCalls = <<[tok |-> <<1, 0>>, method |-> "PATCH",
                       id |-> IdOf(0, "left", "P1"), body |-> [text |-> "c"]]>>
    /\ getEntry(0, "left", "P1").text = "c"
    /\ getEntry(0, "left", "P2").text = ""

\* The slots of the row the user has unchecked: those a {checked: false} call
\* of the uncheck branch was issued for.
UncheckedIds == {c.id : c \in {d \in Range(storeCalls) : "checked" \in DOMAIN d.body}}

\* C7: when row r of a side has been unchecked and the operation has settled,
\* the slots of row r stand at the last row index of the side, the other rows
\* of the side keep their order, and every slot of the side keeps its text.
C7_UncheckedRowMovedToLast ==
    (ops > 0 /\ inflight = {}) =>
        \A i \in DOMAIN entries :
            entries[i].side \in UserSides =>
                /\ entries[i].text = CheckedGrid[entries[i].id].text
                /\ entries[i].id \in UncheckedIds => entries[i].rowIndex = NumRows - 1
                /\ \A j \in DOMAIN entries :
                      (/\ entries[j].side = entries[i].side
                       /\ entries[i].id \notin UncheckedIds
                       /\ entries[j].id \notin UncheckedIds
                       /\ CheckedGrid[entries[i].id].rowIndex < CheckedGrid[entries[j].id].rowIndex)
                      => entries[i].rowIndex < entries[j].rowIndex

\* C8: a poll that fails (network error, non-OK response or error body,
\* non-array body) leaves the view as it was and sets an error state.
C8_FailedPollKeepsView ==
    [][\A r \in inflight :
          (PL_fetchEntriesResponse(r) /\ r.status \in {"neterr", "error", "nonarray"})
          => (entries' = entries /\ error' # "")]_vars

\* C9: applying a poll snapshot that holds, for every slot, the text and
\* checked the view already shows is a no-op: the view is the same and no new
\* state is installed.
C9_SamePollSnapshotIsNoOp ==
    [][\A r \in inflight :
          (/\ PL_fetchEntriesResponse(r) /\ r.status = "ok"
           /\ \A id \in Ids : Shown(r.list, id) = Shown(entries, id))
          => (entries' = entries /\ ~stateReplaced')]_vars

\* C10: a sync-all broadcast replaces the view only when nothing is held: no
\* pending store call, no per-id lock and no per-side lock; otherwise the view
\* is unchanged.
C10_SyncAllDroppedUnderAnyLock ==
    [][(/\ RT_onSyncAll(findMany(store))
        /\ \/ pendingOps # {}
           \/ \E i \in Ids : lockedEntries[i] # NoLock
           \/ \E sd \in Sides : lockedSides[sd] # NoLock)
       => entries' = entries]_vars

\* The history entries a step has created.
NewLogs == SubSeq(history', Len(history) + 1, Len(history'))

\* C14: a store update that carries rowIndex sets the stored rowIndex of the
\* slot to that value (so that the store holds the reordered indices once an
\* uncheck has settled).
C14_UpdateStoresRowIndex ==
    [][\A r \in inflight :
        (PATCH_update(r) /\ "rowIndex" \in DOMAIN r.body)
            => store'[r.id].rowIndex = r.body.rowIndex]_vars

\* C15: a store update is partial: text or checked absent from the request
\* keeps its stored value, and no slot but the addressed one is modified.
C15_UpdateIsPartial ==
    [][\A r \in inflight :
        PATCH_update(r) =>
            /\ DOMAIN store' = DOMAIN store
            /\ \A i \in (DOMAIN store) \ {r.id} : store'[i] = store[i]
            /\ \A f \in {"text", "checked"} \ DOMAIN r.body :
                    store'[r.id][f] = store[r.id][f]]_vars

\* A PATCH {checked: false} has been applied to the checked slot that holds
\* "a": the slot is unchecked and still holds "a".
C15_Witness ==
    \E r \in inflight :
        /\ r.method = "PATCH" /\ r.stage = "updated"
        /\ r.body = [checked |-> FALSE] /\ r.changed = {"checked"}
        /\ store[r.id].text = "a" /\ ~store[r.id].checked

\* C16: a store update appends a history entry for checked (for text) if and
\* only if the stored value of checked (of text) changes through that update,
\* also when updates of one slot interleave; the entries that exist are
\* neither modified nor removed.
C16_HistoryIffChanged ==
    /\ [][\A r \in inflight :
            PATCH_log(r) =>
                /\ (\E k \in DOMAIN NewLogs :
                        NewLogs[k].action \in {"checked", "unchecked"})
                    <=> "checked" \in r.changed
                /\ (\E k \in DOMAIN NewLogs : NewLogs[k].action = "text_changed")
                    <=> "text" \in r.changed]_vars
    /\ [][/\ Len(history') >= Len(history)
          /\ SubSeq(history', 1, Len(history)) = history]_vars

\* C17: clearSlotText(id) has the effect of updateSlot(id, {text: ""}) on the
\* store: the same resulting slot and the same history entries for every
\* stored text, the empty one included; checked and rowIndex are unchanged.
C17_ClearIsUpdateWithEmptyText ==
    /\ [][\A r \in inflight :
            DELETE_update(r) => store' = PATCH(store, r.id, [text |-> ""])]_vars
    /\ [][\A r \in inflight :
            DELETE_log(r) =>
                history' = history \o PATCH_logs(r.entry, [text |-> ""])]_vars

\* Every identity of the grid is held by exactly one slot.
Initialized(st) ==
    /\ \A i \in Ids : Cardinality(Holding(st, InitialGrid[i])) = 1
    /\ Cardinality(DOMAIN st) = Cardinality(Ids)

\* C18: initializeGrid is idempotent: it creates the slots that are missing,
\* with empty text and unchecked, and changes no slot that exists, so that on
\* its return the store holds every identity once (4 slots per row), and on an
\* initialized store it changes nothing.
C18_InitializeIsIdempotent ==
    [][/\ \A c \in calls : \A u \in c.running :
            (upsert_native(c, u) \/ upsert_select(c, u) \/ upsert_insert(c, u))
                => /\ \A i \in DOMAIN store :
                        i \in DOMAIN store' /\ store'[i] = store[i]
                   /\ \A i \in (DOMAIN store') \ DOMAIN store :
                        store'[i].text = "" /\ ~store'[i].checked
                   /\ Initialized(store) => store' = store
       /\ \A r \in inflight : POST_resolve(r) => Initialized(store)]_vars

\* initializeGrid has returned twice on the store that held two slots, one of
\* them checked with text "a": the grid is complete and the slot is as it was.
C18_Witness ==
    /\ Len(storeCalls) = 2
    /\ \A k \in DOMAIN storeCalls : storeCalls[k].method = "POST"
    /\ inflight = {} /\ calls = {}
    /\ Initialized(store)
    /\ \A i \in DOMAIN PartialGrid : store[i] = PartialGrid[i]

\* C19: with the upserts of concurrent initializeGrid calls interleaved in
\* any order no two slots share an identity, and once the upserts have
\* settled the store holds exactly the slots of the grid.
C19_ConcurrentInitializeKeepsIdentities ==
    /\ \A i, j \in DOMAIN store : SameKey(store[i], store[j]) => i = j
    /\ (/\ \E k \in DOMAIN storeCalls : storeCalls[k].method = "POST"
        /\ \A r \in inflight : r.method # "POST"
        /\ \A c \in calls : Upserted(c))
            => Initialized(store)

\* Two calls ran on the empty store and the INSERT of one met the row of the
\* other: its upsert was rejected, and the grid is complete.
C19_Witness ==
    /\ \E c \in calls : c.failed /\ Upserted(c)
    /\ Len(storeCalls) = 2
    /\ \A k \in DOMAIN storeCalls : storeCalls[k].method = "POST"
    /\ inflight = {}
    /\ store = InitialGrid

\* C20: on an initialized store no update, clear or initialize changes the
\* set of the slot ids, and a clear changes nothing of its slot but the text,
\* which becomes empty.
C20_SlotsNeverDeleted ==
    /\ [][Initialized(store) => DOMAIN store' = DOMAIN store]_vars
    /\ [][\A r \in inflight :
            DELETE_update(r) =>
                /\ r.id \in DOMAIN store'
                /\ store'[r.id].text = ""
                /\ \A f \in (DOMAIN store[r.id]) \ {"text"} :
                        store'[r.id][f] = store[r.id][f]]_vars

\* The grid was initialized from the two slots and the slot with "a" was
\* cleared then: every slot is there, the cleared one still checked.
C20_Witness ==
    /\ Len(storeCalls) = 2
    /\ storeCalls[1].method = "POST" /\ storeCalls[2].method = "DELETE"
    /\ inflight = {} /\ calls = {}
    /\ Initialized(store)
    /\ store[IdOf(0, "left", "P1")].text = ""
    /\ store[IdOf(0, "left", "P1")].checked

\* C12: clearRow(rowIndex, side) empties the text of the P1 and of the P2 slot
\* of the row in the view before either store call completes, and issues both
\* clear calls before either returns.
C12_ClearRowEmptiesBothAtOnce ==
    [][\A row \in Rows, sd \in Sides :
        PL_clearRow(row, sd) =>
            /\ \A p \in Positions : FindEntry(entries', row, sd, p).text = ""
            /\ \A p \in Positions :
                    \E r \in inflight' :
                        /\ r.method = "DELETE" /\ r.stage = "sent"
                        /\ r.id = FindEntry(entries, row, sd, p).id]_vars

\* The slots a check of (row, sd) affects: those of the row and the checked
\* ones of the other rows of the side.
AffectedSlots(list, row, sd) ==
    {list[i].id : i \in {j \in DOMAIN list :
        list[j].side = sd /\ (list[j].rowIndex = row \/ list[j].checked)}}

\* The row-groups among them.
AffectedRows(list, row, sd) ==
    {list[i].rowIndex : i \in {j \in DOMAIN list :
        list[j].side = sd /\ (list[j].rowIndex = row \/ list[j].checked)}}

\* The store calls a step has issued.
NewCalls == SubSeq(storeCalls', Len(storeCalls) + 1, Len(storeCalls'))

\* The rows whose slots the calls issued so far check.
RowsCalledChecked ==
    {store[c.id].rowIndex :
        c \in {d \in Range(storeCalls) : d.body = [checked |-> TRUE]}}

\* A single check of a row has settled, and it was the check of a row of a
\* side that had another row checked.
CheckSettled ==
    /\ ops = 1
    /\ \E k \in DOMAIN storeCalls : storeCalls[k].body = [checked |-> TRUE]
    /\ \E k \in DOMAIN storeCalls : storeCalls[k].body = [checked |-> FALSE]
    /\ \A r \in inflight : r.method # "PATCH"

ViewIsStore ==
    \A i \in DOMAIN store :
        \E j \in DOMAIN entries :
            /\ entries[j].id = i
            /\ entries[j].text = store[i].text
            /\ entries[j].checked = store[i].checked
            /\ entries[j].rowIndex = store[i].rowIndex

\* C11: once the clients have stopped editing, with every store call
\* successful, the view of a connected client eventually equals the slot
\* state of the store: a change written by another client eventually appears
\* in it.
C11_ViewEventuallyStore == <>[]ViewIsStore

\* ------------------------------------------- a view older than the store
\* The database has been reset since the board was loaded (SETUP-GUIDE.md:108,
\* DEPLOY.md:170) and the initialization that followed has not yet created the
\* slot MissingId: the view still shows it, the store cannot resolve its id.
MissingId == IdOf(0, "left", "P2")

StaleStore == [i \in Ids \ {MissingId} |-> InitialGrid[i]]

InitMissing ==
    /\ store = StaleStore
    /\ history = <<>>
    /\ entries = findMany(InitialGrid)
    /\ error = "" /\ loading = FALSE /\ stateReplaced = FALSE
    /\ pusherRef = TRUE /\ nextPoll = -1
    /\ pendingOps = {}
    /\ lockedEntries = [i \in Ids |-> NoLock]
    /\ lockedSides = [s \in Sides |-> NoLock]
    /\ isTyping = FALSE /\ typingTimeout = -1
    /\ debounceTimer = NoTimer
    /\ timers = {} /\ inflight = {} /\ calls = {}
    /\ abortController = NoToken
    /\ storeCalls = <<>>
    /\ now = 0 /\ ops = 0 /\ faults = 0
    /\ InitRate

\* The clock runs until the debounce delay has passed; the release of the locks,
\* which comes later, is left out.
NextMissing ==
    \/ RT_handleTextInput(MissingId, "á")
    \/ RT_debouncedUpdateText
    \/ \E r \in inflight : RT_updateEntryResponse(r)
    \/ \E row \in Rows, s \in UserSides, c \in BOOLEAN :
            RT_handleCheckboxChange(row, s, c)
    \/ \E s \in UserSides : RT_clearRow(0, s)
    \/ \E r \in inflight, ok \in BOOLEAN : RT_groupSettle(r, ok)
    \/ \E r \in inflight : ServerOk(r)
    \/ now < DebounceDelay /\ Tick

SpecMissing == InitMissing /\ [][NextMissing]_vars

\* The handler of r answers not-found: the response that sets out carries the
\* error body (single call), or the fetch of the group resolves (group call).
NotFound(r) ==
    /\ r \in inflight /\ r.method # "GET" /\ r.id \notin DOMAIN store
    /\ \/ ServerOk(r)
       \/ RT_groupSettle(r, TRUE)

\* C21: a PATCH or DELETE for an id the store does not hold is answered
\* not-found, changes no slot and creates no history entry; in a group it
\* fails that slot only: the other calls of the group stay on their way, and
\* each of them that is handled is applied to its slot.
C21_NotFoundTouchesNothingAndFailsAlone ==
    [][\A r \in inflight :
          /\ NotFound(r) =>
                /\ store' = store /\ history' = history
                /\ r.kind = "group" => inflight' = inflight \ {r}
                /\ r.kind # "group" =>
                      \E q \in inflight' :
                          /\ q.tok = r.tok /\ q.id = r.id /\ q.stage = "response"
                          /\ q.status = "error" /\ q.entry = ErrorBody
          /\ (RT_groupSettle(r, TRUE) /\ r.id \in DOMAIN store) =>
                /\ r.method = "PATCH" => store'[r.id].checked = r.body.checked
                /\ r.method = "DELETE" => store'[r.id].text = ""
                /\ \A i \in DOMAIN store \ {r.id} : store'[i] = store[i]]_vars

\* The call of a check group for the missing slot has been answered and the
\* call for its neighbour in the same row has been applied after it.
C21_Witness ==
    /\ faults = 0
    /\ \E k \in DOMAIN storeCalls :
          /\ storeCalls[k].id = MissingId /\ storeCalls[k].body = [checked |-> TRUE]
          /\ \A q \in inflight : q.tok = storeCalls[k].tok => q.id # MissingId
          /\ \E q \in inflight : q.tok = storeCalls[k].tok
    /\ store[IdOf(0, "left", "P1")].checked

\* The view shows the values of a store call for the slot the call is for.
ShowsPatch(list, c) == MapEntry(list, c.id, c.body) = list

\* C22: for every mutation the optimistic patch of the view happens before the
\* store call is issued, never after the response: the step that takes the
\* input patches the view, the view shows the patch of a call that a handler
\* issues at once, and the step that receives the response of a mutation
\* leaves the view as it is.
C22_PatchBeforeCallNeverAfterResponse ==
    [][/\ \A i \in TypedIds, t \in TypedTexts :
            PL_handleTextInput(i, t) =>
                ShowsPatch(entries', [id |-> i, body |-> [text |-> normalizeToEnglish(t)]])
       /\ \A k \in (DOMAIN storeCalls') \ DOMAIN storeCalls :
            storeCalls'[k].method = "DELETE" => ShowsPatch(entries', storeCalls'[k])
       /\ \A r \in inflight :
            (PL_updateEntryResponse(r) \/ PL_clearEntryResponse(r))
                => entries' = entries]_vars

\* ------------------------------------------------- polls that overlap
\* The number of polling intervals that pass.
MaxPolls == 2

\* The instant of the next callback that is set: the polling interval or a
\* timer.
NextEvent ==
    LET dues == {nextPoll} \cup {t.due : t \in timers}
    IN  CHOOSE d \in dues : \A e \in dues : d <= e

\* Time passes until the next callback is due, while requests stay in flight.
Wait ==
    /\ now < MaxPolls * PollInterval
    /\ now < NextEvent
    /\ now' = NextEvent
    /\ UNCHANGED <<store, history, entries, error, loading, stateReplaced, pusherRef, rateVars,
                   pendingOps, lockedEntries, lockedSides, isTyping,
                   typingTimeout, debounceTimer, timers, inflight, calls,
                   nextPoll, abortController, storeCalls, ops, faults>>

\* The polling client over several intervals, with a slot cleared in between
\* and polls answered late, answered with a failure or not answered.
NextAbort ==
    \/ PL_poll
    \/ \E r \in inflight : PL_fetchEntriesResponse(r)
    \/ \E i \in UserIds : PL_clearEntry(i)
    \/ \E r \in inflight : PL_clearEntryResponse(r)
    \/ \E r \in inflight : ServerOk(r)
    \/ \E r \in inflight :
            \E st \in FaultStatuses(r), ra \in RetryAfterValues \cup {0} :
                ServerFault(r, st, ra)
    \/ \E t \in timers : TimerFire(t)
    \/ Wait

SpecAbort == InitPL /\ [][NextAbort]_vars

\* C23: when the polling interval fires while the previous poll is in flight,
\* the previous poll is aborted: every poll in flight that has not been aborted
\* is the latest one; and the response of a poll that is not the latest one,
\* however late it arrives, changes neither the view nor error nor loading.
C23_OnlyLatestPollApplied ==
    /\ [](\A q \in inflight :
            (q.kind = "fetchEntries" /\ q.status # "aborted") => q.tok = abortController)
    /\ [][\A r \in inflight :
            (PL_fetchEntriesResponse(r) /\ r.tok # abortController)
                => /\ entries' = entries /\ error' = error /\ loading' = loading]_vars

\* A poll has been aborted by the interval callback and its rejection is still
\* to be delivered, while the poll that replaced it has been answered with a
\* snapshot the view does not show yet.
C23_Witness ==
    /\ \E q \in inflight : q.kind = "fetchEntries" /\ q.status = "aborted"
    /\ \E p \in inflight :
          /\ p.kind = "fetchEntries" /\ p.tok = abortController
          /\ p.stage = "response" /\ p.status = "ok"
          /\ p.list # entries

\* C24: a poll response with status 429 leaves the view unchanged and sets an
\* error that carries the Retry-After value; the error is cleared when
\* Retry-After seconds have passed (while it is shown, the timer that clears
\* it is set and not yet past its time), and the polling interval stays set, so
\* the next cycle polls again.
C24_RateLimitedPollKeepsViewAndHints ==
    /\ [][\A r \in inflight :
            (PL_fetchEntriesResponse(r) /\ r.status = "ratelimited")
                => /\ entries' = entries /\ loading' = loading
                   /\ error' = RetryHint(r.retryAfter)
                   /\ nextPoll' = nextPoll /\ nextPoll # -1]_vars
    /\ [](\A ra \in RetryAfterValues :
            error = RetryHint(ra) =>
                \E t \in timers : /\ t.kind = "clearError"
                                  /\ now <= t.due /\ t.due <= now + 2 * ra)
    /\ [][\A t \in timers :
            (TimerFire(t) /\ t.kind = "clearError") => error' = ""]_vars

\* A poll has been answered 429 with Retry-After 2: the hint is shown over the
\* unchanged view, and the next poll is on its way.
C24_Witness ==
    /\ error = RetryHint(2)
    /\ entries = findMany(SeededGrid)
    /\ \E q \in inflight : q.kind = "fetchEntries" /\ q.stage = "sent"

\* ------------------------------------------------ typing into two fields
\* The callbacks of the timers the component has set, and the clock.
Callbacks ==
    \/ PL_typingTimeout
    \/ PL_debouncedUpdateText
    \/ PL_poll
    \/ Tick

NextFields ==
    \/ \E i \in TypedIds, t \in TypedTexts : PL_handleTextInput(i, t)
    \/ Callbacks
    \/ \E r \in inflight : PL_updateEntryResponse(r)
    \/ \E r \in inflight : PL_fetchEntriesResponse(r)
    \/ \E r \in inflight : ServerOk(r)

SpecFields == InitPL /\ [][NextFields]_vars

\* Time passes and every timer that is due fires.
SpecFieldsFair == SpecFields /\ WF_vars(Callbacks)

\* The store has been called with text t for slot id.
TextCalled(id, t) ==
    \E k \in DOMAIN storeCalls :
        /\ storeCalls[k].method = "PATCH" /\ storeCalls[k].id = id
        /\ storeCalls[k].body = [text |-> t]

\* 'c' has been typed into slot A and has not been sent yet, then y into slot
\* B, whose delay is running, and the user types no more.
TypedInto(A, B, y) ==
    /\ ops = MaxOps
    /\ \E i \in DOMAIN entries : entries[i].id = A /\ entries[i].text = "c"
    /\ ~TextCalled(A, "c")
    /\ debounceTimer # NoTimer /\ debounceTimer.due <= MaxTime
    /\ debounceTimer.id = B /\ debounceTimer.text = normalizeToEnglish(y)

\* C25: each text field has its own debounce: when setText(A, x) is followed
\* within 500 ms by setText(B, y) for another slot B and by no further call,
\* the store eventually receives an update for A with x and one for B with y.
C25_EachFieldReachesStore ==
    \A A \in TypedIds, B \in TypedIds, y \in TypedTexts :
        (A # B /\ TypedInto(A, B, y))
            ~> (TextCalled(A, "c") /\ TextCalled(B, normalizeToEnglish(y)))

\* ----------------------------------------------- the limiter under load
\* One client calls GET and POST /api/queue at any rate while windows pass.
InitLimit ==
    /\ InitCommon /\ store = InitialGrid /\ history = Untracked
    /\ pusherRef = FALSE /\ nextPoll = -1

NextLimit ==
    \/ GET_rateLimit
    \/ POST_rateLimit
    \/ cleanup
    \/ RateTick

SpecLimit == InitLimit /\ [][NextLimit]_vars

\* C26: per key, the calls of rateLimit that succeed in one window number at
\* most limit (60 for GET /api/queue, 10 for POST /api/queue): while the window
\* of the previous call is open, a call succeeds exactly if the previous one
\* left something remaining, and it then leaves one less; every further call
\* is rejected with remaining 0; remaining is never negative; no call in an
\* open window, rejected ones included, moves resetTime; and the first call
\* after resetTime has passed succeeds and starts a new window.
C26_AtMostLimitPerWindow ==
    /\ [](\A key \in RateKeys :
            /\ rateResult[key].remaining >= 0
            /\ rateResult[key].remaining < Limit(key)
            /\ ~rateResult[key].success /\ rateResult[key] # NoResult
                    => rateResult[key].remaining = 0)
    /\ [][\A key \in RateKeys :
            RateCall(key) =>
                IF rateResult[key].resetTime >= now
                THEN /\ rateResult'[key].resetTime = rateResult[key].resetTime
                     /\ rateResult'[key].success = (rateResult[key].remaining > 0)
                     /\ rateResult'[key].success =>
                            rateResult'[key].remaining = rateResult[key].remaining - 1
                ELSE /\ rateResult'[key].success
                     /\ rateResult'[key].remaining = Limit(key) - 1
                     /\ rateResult'[key].resetTime = now + WindowMs]_vars

\* GET /api/queue has been rejected twice in the first window, at its end,
\* after sixty calls went through, while POST /api/queue is in a later window.
C26_Witness ==
    /\ rateResult[GetKey] = [success |-> FALSE, remaining |-> 0, resetTime |-> WindowMs]
    /\ rateLimitStore[GetKey].count = GetLimit + MaxRejected
    /\ now = WindowMs
    /\ rateResult[PostKey].success /\ rateResult[PostKey].resetTime > WindowMs

\* C27: once the lock of an edit has expired (the typing flag is dropped when
\* the typing delay after the last input is over, and it is the only lock of
\* the polling client), the next poll result delivered to the client is
\* applied: the view's text and checked of every slot become those of the
\* snapshot.
C27_PollAppliedAfterLockExpired ==
    /\ [](isTyping => (typingTimeout # -1 /\ typingTimeout <= now + TypingDelay))
    /\ [][\A r \in inflight :
            (PL_fetchEntriesResponse(r) /\ r.status = "ok" /\ ~isTyping)
                => \A id \in Ids : Shown(entries', id) = Shown(r.list, id)]_vars

\* 'c' was typed into the first slot and sent; the typing flag has been
\* dropped and a snapshot taken before the store was updated has been applied:
\* the view shows the stored 'a' again.
C27_Witness ==
    /\ ~isTyping /\ typingTimeout = -1
    /\ TextCalled(IdOf(0, "left", "P1"), "c")
    /\ store[IdOf(0, "left", "P1")].text = "a"
    /\ Shown(entries, IdOf(0, "left", "P1")) = {<<"a", FALSE>>}
    /\ \A q \in inflight : q.kind # "fetchEntries"

\* The local edit that covers slot d is between its beginning and the end of
\* the delay after its store write: the debounced call for the slot is still to
\* be issued or a call for it is in flight, or the release timer that was set
\* when the call returned has not fired (2 s); or a group operation on the
\* slot's side awaits its calls, or the release timer set when all of them had
\* returned has not fired (3 s).
Suppressing(d) ==
    \/ EditPending(d.id)
    \/ \E t \in timers : t.kind = "entry" /\ t.key = d.id /\ t.lockTime = lockedEntries[d.id]
    \/ \E c \in calls : c.kind = "side" /\ c.key = d.side
    \/ \E t \in timers : t.kind = "side" /\ t.key = d.side /\ t.lockTime = lockedSides[d.side]

\* C28: the lock of a local edit suppresses external updates from the instant
\* the edit begins until 2 s after its store write has completed (per-id lock)
\* or 3 s after all store calls have completed (side lock), however long the
\* write takes: an entry-updated broadcast for a slot so covered leaves the
\* view as it is.
C28_LockLastsUntilDelayAfterWrite ==
    [][\A d \in BroadcastEntries :
          (RT_onEntryUpdated(d) /\ Suppressing(d)) => entries' = entries]_vars

\* ------------------------------- typing into two fields, realtime board
\* The user types into two slots of the realtime board; the store calls
\* succeed, fail or are dropped by the network.
NextRTFields ==
    \/ \E i \in TypedIds, t \in TypedTexts : RT_handleTextInput(i, t)
    \/ RT_debouncedUpdateText
    \/ \E r \in inflight : RT_updateEntryResponse(r)
    \/ \E r \in inflight : ServerOk(r)
    \/ \E r \in inflight : \E st \in FaultStatuses(r) : ServerFault(r, st, 0)
    \/ \E t \in timers : TimerFire(t)
    \/ Tick

SpecRTFields == InitRT /\ [][NextRTFields]_vars

\* Every operation of the client has settled and every delay has elapsed: no
\* debounced call is to be issued, no call is in flight or awaited, no release
\* timer is set.
Settled ==
    /\ debounceTimer = NoTimer
    /\ inflight = {} /\ calls = {}
    /\ timers = {}

\* C29: every per-id lock, side lock and pending mark a local operation
\* acquires is released again, however its store call ends: once all
\* operations of the client have settled and their delays have elapsed, the
\* lock tables and the pending set are empty.
C29_LocksReleasedOnceSettled ==
    Settled =>
        /\ pendingOps = {}
        /\ \A i \in Ids : lockedEntries[i] = NoLock
        /\ \A sd \in Sides : lockedSides[sd] = NoLock

\* ------------------------------------------ group operations that fail
\* The realtime board over a grid in use: rows are checked, unchecked and
\* cleared, and the calls of a group succeed or are dropped by the network, in
\* any order and before any release timer is due.
InitGroup ==
    /\ InitCommon /\ store \in {SeededGrid, CheckedGrid} /\ history = Untracked
    /\ pusherRef = TRUE /\ nextPoll = -1

NextGroup ==
    \/ \E row \in Rows, s \in UserSides, c \in BOOLEAN :
            RT_handleCheckboxChange(row, s, c)
    \/ \E s \in UserSides : RT_clearRow(0, s)
    \/ \E r \in inflight, ok \in BOOLEAN : RT_groupSettle(r, ok)

SpecGroup == InitGroup /\ [][NextGroup]_vars

\* The store holds what store call c asks for.
Holds(st, c) ==
    IF c.method = "DELETE" THEN st[c.id].text = ""
    ELSE st[c.id].checked = c.body.checked

\* C30: in a group operation the failure of the store call of one slot
\* neither prevents the calls of the other slots from being issued and applied
\* nor reverts the optimistic view: the handler issues the calls of all its
\* slots at once; a call that fails leaves the view, the store and the other
\* calls in flight as they are; a call that is handled, before or after a
\* failure in its group, is applied to its slot and leaves the view as it is.
C30_GroupFailureIsolated ==
    /\ [][\A row \in Rows, sd \in UserSides, c \in BOOLEAN :
            RT_handleCheckboxChange(row, sd, c) =>
                \A e \in Range(RT_entriesToUpdate(entries, row, sd, c)) :
                    \E q \in inflight' : q.id = e.id /\ q.tok = <<now, ops + 1>>]_vars
    /\ [][\A sd \in UserSides :
            RT_clearRow(0, sd) =>
                \A pos \in Positions :
                    \E q \in inflight' : /\ q.id = FindEntry(entries, 0, sd, pos).id
                                         /\ q.method = "DELETE"]_vars
    /\ [][\A r \in inflight :
            /\ RT_groupSettle(r, FALSE) =>
                    /\ entries' = entries /\ store' = store
                    /\ inflight' = inflight \ {r}
            /\ RT_groupSettle(r, TRUE) =>
                    /\ entries' = entries
                    /\ inflight' = inflight \ {r}
                    /\ r.method = "PATCH" => store'[r.id].checked = r.body.checked
                    /\ r.method = "DELETE" => store'[r.id].text = ""]_vars

\* A call of a group has failed and left the store as it was, another call of
\* the same group has been applied, and the view shows the optimistic values
\* of both slots.
C30_Witness ==
    /\ faults = 1 /\ inflight = {}
    /\ \E j \in DOMAIN storeCalls, k \in DOMAIN storeCalls :
          /\ storeCalls[j].tok = storeCalls[k].tok
          /\ ~Holds(store, storeCalls[j]) /\ ~Holds(SeededGrid, storeCalls[k])
          /\ Holds(store, storeCalls[k])
          /\ ShowsPatch(entries, storeCalls[j]) /\ ShowsPatch(entries, storeCalls[k])

\* ------------------------------ the realtime board without Pusher
\* NEXT_PUBLIC_PUSHER_KEY is not set (part_006:138-149): pusherRef.current
\* stays null and updateEntry reads the entry of the response into the view.
\* The user types into a slot; the store calls are answered or dropped.
InitLocal ==
    /\ InitCommon /\ store = SeededGrid /\ history = Untracked
    /\ pusherRef = FALSE /\ nextPoll = -1

NextLocal ==
    \/ \E i \in UserIds, t \in TypedTexts : RT_handleTextInput(i, t)
    \/ RT_debouncedUpdateText
    \/ \E r \in inflight : RT_updateEntryResponse(r)
    \/ \E r \in inflight : ServerOk(r)
    \/ \E r \in inflight : ServerFault(r, "neterr", 0)
    \/ \E t \in timers : TimerFire(t)
    \/ Tick

SpecLocal == InitLocal /\ [][NextLocal]_vars

\* The text the view shows for slot id.
TextShown(list, id) == {list[i].text : i \in {j \in DOMAIN list : list[j].id = id}}

\* C31: while the per-id lock of slot id is held, the view keeps the most
\* recent local optimistic text of id: the response of a store call of this
\* client for id that the server has answered, arriving while the lock is held
\* (after a newer local edit or not), leaves the text the view shows for id as
\* it is.
C31_EarlierResponseKeepsNewerText ==
    [][\A r \in inflight :
          (/\ RT_updateEntryResponse(r) /\ r.status = "ok"
           /\ lockedEntries[r.id] # NoLock)
          => TextShown(entries', r.id) = TextShown(entries, r.id)]_vars

\* ------------------------------------------- duplicates in the view
\* A record another party publishes for a slot of the user's side, carrying
\* a new text and the row index of another row: the table the publisher reads
\* holds the slot at that row.
MovedEntries(st) ==
    {d \in {[st[i] EXCEPT !.rowIndex = r, !.text = "c"] :
                i \in {j \in DOMAIN st : st[j].side \in UserSides}, r \in Rows} :
        d.rowIndex # st[d.id].rowIndex}

\* The realtime board over a grid in use, after none or one of these
\* broadcasts was merged into the view by the updater of the entry-updated
\* handler (part_006:214-223, which replaces the whole record): the view then
\* holds two records with the same (rowIndex, side, position).
InitDedup ==
    /\ store \in {SeededGrid, CheckedGrid}
    /\ history = Untracked
    /\ entries \in {findMany(store)} \cup
                   {RT_applyEntryUpdated(findMany(store), d) : d \in MovedEntries(store)}
    /\ error = "" /\ loading = FALSE /\ stateReplaced = FALSE
    /\ pusherRef = TRUE /\ nextPoll = -1
    /\ pendingOps = {}
    /\ lockedEntries = [i \in Ids |-> NoLock]
    /\ lockedSides = [s \in Sides |-> NoLock]
    /\ isTyping = FALSE /\ typingTimeout = -1
    /\ debounceTimer = NoTimer
    /\ timers = {} /\ inflight = {} /\ calls = {}
    /\ abortController = NoToken
    /\ storeCalls = <<>>
    /\ now = 0 /\ ops = 0 /\ faults = 0
    /\ InitRate

\* Rows are checked and unchecked and the calls of the groups settle.
NextDedup ==
    \/ \E row \in Rows, s \in UserSides, c \in BOOLEAN :
            RT_handleCheckboxChange(row, s, c)
    \/ \E r \in inflight, ok \in BOOLEAN : RT_groupSettle(r, ok)

SpecDedup == InitDedup /\ [][NextDedup]_vars

\* The records of a list that no record of the same identity exceeds in id.
Highest(list) ==
    {e \in Range(list) : \A f \in Range(list) : SameKey(e, f) => f.id <= e.id}

\* The slots a step has issued store calls for.
NewlyCalled == {NewCalls[k].id : k \in DOMAIN NewCalls}

\* C32: before dispatch, toggleChecked reduces the captured slot set to at
\* most one slot per (rowIndex, side, position) identity, the one with the
\* highest id: of the captured records of the side (of the row, for an
\* uncheck) those with the highest id of their identity get a store call, one
\* each, and no call is issued for any other slot.
C32_DedupKeepsHighestId ==
    [][\A row \in Rows, sd \in UserSides, c \in BOOLEAN :
          RT_handleCheckboxChange(row, sd, c) =>
              /\ NewlyCalled =
                    {e.id : e \in {f \in Highest(entries) :
                                      f.side = sd /\ (c \/ f.rowIndex = row)}}
              /\ Len(NewCalls) = Cardinality(NewlyCalled)
              /\ \A e \in Range(entries), f \in Range(entries) :
                    (e.id \in NewlyCalled /\ f.id \in NewlyCalled /\ SameKey(e, f))
                        => e = f]_vars

\* The view holds two records of one identity, and a check or uncheck of
\* their row has issued a call for the one with the higher id and none for
\* the other.
C32_Witness ==
    \E e \in Range(entries), f \in Range(entries) :
        /\ SameKey(e, f) /\ e.id < f.id
        /\ \E k \in DOMAIN storeCalls : storeCalls[k].id = f.id
        /\ \A k \in DOMAIN storeCalls : storeCalls[k].id # e.id

\* ---------------------------------------- uncheck called on any row
\* The seeded grid with the rows S of the user's side checked.  A side of the
\* store can hold any set of checked rows: every slot is checked by a PATCH
\* of its own.
CheckedAt(S) ==
    [i \in Ids |->
        IF SeededGrid[i].side \in UserSides /\ SeededGrid[i].rowIndex \in S
        THEN [SeededGrid[i] EXCEPT !.checked = TRUE] ELSE SeededGrid[i]]

InitUncheck ==
    /\ store \in {CheckedAt(S) : S \in SUBSET Rows}
    /\ history = Untracked
    /\ entries = findMany(store)
    /\ error = "" /\ loading = FALSE /\ stateReplaced = FALSE
    /\ pusherRef = FALSE /\ nextPoll = -1
    /\ pendingOps = {}
    /\ lockedEntries = [i \in Ids |-> NoLock]
    /\ lockedSides = [s \in Sides |-> NoLock]
    /\ isTyping = FALSE /\ typingTimeout = -1
    /\ debounceTimer = NoTimer
    /\ timers = {} /\ inflight = {} /\ calls = {}
    /\ abortController = NoToken
    /\ storeCalls = <<>>
    /\ now = 0 /\ ops = 0 /\ faults = 0
    /\ InitRate

\* handleCheckboxChange is called with checked = false for a row of the side,
\* whatever the row's checked value is (the uncheck branch does not read it),
\* and its store calls are handled and answered in any order.
NextUncheck ==
    \/ \E row \in Rows, s \in UserSides :
            ops < MaxUnchecks /\ PL_checkboxHandler(row, s, FALSE)
    \/ \E r \in inflight : PL_updateEntryResponse(r)
    \/ \E r \in inflight : ServerOk(r)

SpecUncheck == InitUncheck /\ [][NextUncheck]_vars

\* No slot of row (row, sd) of a list is checked.
NotChecked(list, row, sd) ==
    \A i \in DOMAIN list :
        (list[i].side = sd /\ list[i].rowIndex = row) => ~list[i].checked

\* The rows of side sd of a list other than row.
OtherRows(list, row, sd) ==
    {list[i].rowIndex : i \in {j \in DOMAIN list : list[j].side = sd}} \ {row}

C34_TypingFlagClearedOneSecondAfterLastKey ==
    /\ [][\A i \in TypedIds, t \in TypedTexts :
            PL_handleTextInput(i, t)
                => (isTyping' /\ typingTimeout' = now + TypingDelay)]_vars
    /\ [](isTyping => (typingTimeout # -1 /\ now <= typingTimeout))
    /\ [][(typingTimeout' # typingTimeout \/ isTyping' # isTyping)
          => \/ isTyping' /\ typingTimeout' = now + TypingDelay /\ ops' = ops + 1
             \/ isTyping /\ ~isTyping' /\ typingTimeout = now /\ typingTimeout' = -1]_vars
    /\ [][PL_debouncedUpdateText
          => (isTyping' = isTyping /\ typingTimeout' = typingTimeout)]_vars
    /\ [][\A r \in inflight :
            PL_updateEntryResponse(r)
                => (isTyping' = isTyping /\ typingTimeout' = typingTimeout)]_vars

\* Two keystrokes 500 ms apart: 1 s after the first the flag is still set, its
\* timer due 1 s after the second, although the debounced calls have been
\* issued and the store write of the last text has completed.
C34_Witness ==
    /\ ops = 2 /\ now = TypingDelay
    /\ isTyping /\ typingTimeout = DebounceDelay + TypingDelay
    /\ debounceTimer = NoTimer /\ inflight = {}
    /\ Len(TextCalls(storeCalls)) = 2
    /\ \E i \in TypedIds : store[i].text = "c" /\ TextShown(entries, i) = {"c"}

\* C35: when a second local operation on the same slot (or the same side)
\* has re-acquired the lock before the release timer of an earlier operation
\* fires, the earlier timer does not release the lock: a release timer that
\* fires while the lock carries another operation's timestamp leaves the lock
\* tables as they are, and a lock is deleted only by the firing of the timer
\* that carries the timestamp of the operation holding it, the latest one.
C35_EarlierTimerKeepsReacquiredLock ==
    /\ [][\A t \in timers :
            /\ (TimerFire(t) /\ t.kind = "entry" /\ lockedEntries[t.key] # t.lockTime)
                    => (lockedEntries' = lockedEntries /\ lockedSides' = lockedSides)
            /\ (TimerFire(t) /\ t.kind = "side" /\ lockedSides[t.key] # t.lockTime)
                    => (lockedEntries' = lockedEntries /\ lockedSides' = lockedSides)]_vars
    /\ [][\A i \in Ids :
            (lockedEntries[i] # NoLock /\ lockedEntries'[i] = NoLock)
                => \E t \in timers : /\ TimerFire(t) /\ t.kind = "entry" /\ t.key = i
                                     /\ t.lockTime = lockedEntries[i]]_vars
    /\ [][\A sd \in Sides :
            (lockedSides[sd] # NoLock /\ lockedSides'[sd] = NoLock)
                => \E t \in timers : /\ TimerFire(t) /\ t.kind = "side" /\ t.key = sd
                                     /\ t.lockTime = lockedSides[sd]]_vars

\* The first user action was a group operation on the left side; its calls
\* have settled and its release timer has fired (it is neither awaited nor
\* pending), yet the side is locked, by the second user action.
C35_Witness ==
    /\ \E k \in DOMAIN storeCalls : storeCalls[k].tok[2] = 1
    /\ \A q \in inflight : q.tok[2] # 1
    /\ \A c \in calls : c.tok[2] # 1
    /\ \A t \in timers : t.lockTime[2] # 1
    /\ lockedSides["left"] # NoLock /\ lockedSides["left"][2] = 2

\* C36: a slot id is in the pending set whenever a store call this client
\* has issued for that id is in flight (sent and not yet settled at the
\* client).
C36_PendingWhileInFlight ==
    \A r \in inflight : r.method \in {"PATCH", "DELETE"} => r.id \in pendingOps

\* C37: after any sequence of check and uncheck-with-reorder operations, no
\* two slots of the view share a (rowIndex, side, position) triple and the row
\* indices used on each side are exactly those of the grid's rows.
C37_ViewIdentitiesStayUnique ==
    /\ \A i \in DOMAIN entries, j \in DOMAIN entries :
            SameKey(entries[i], entries[j]) => i = j
    /\ \A sd \in Sides :
            {entries[i].rowIndex : i \in {j \in DOMAIN entries : entries[j].side = sd}}
                = Rows

\* ------------------------------------------- checkboxes of both sides
\* The realtime board over a grid in use: rows of either side are checked and
\* unchecked, and the calls of a group succeed or are dropped by the network,
\* in any order and before any release timer is due.
NextSides ==
    \/ \E row \in Rows, s \in Sides, c \in BOOLEAN :
            RT_handleCheckboxChange(row, s, c)
    \/ \E r \in inflight, ok \in BOOLEAN : RT_groupSettle(r, ok)

SpecSides == InitGroup /\ [][NextSides]_vars

\* The ids of the slots a list holds on side sd.
IdsOfSide(list, sd) == {list[i].id : i \in {j \in DOMAIN list : list[j].side = sd}}

\* C38: toggleChecked(rowIndex, side, checked) changes nothing on the other
\* side.  The call leaves every record of the other side in the view as it
\* is, issues store calls and pending marks for slots of its own side only
\* and leaves the lock of the other side as it is; when its store calls
\* settle, the view and the locks stay as they are and the release timer that
\* is set is the one of its own side.
C38_ToggleLeavesOtherSide ==
    /\ [][\A row \in Rows, sd \in Sides, c \in BOOLEAN :
            RT_handleCheckboxChange(row, sd, c) =>
                /\ \A i \in DOMAIN entries :
                        entries[i].side # sd => entries'[i] = entries[i]
                /\ NewlyCalled \subseteq IdsOfSide(entries, sd)
                /\ NewlyCalled \cap IdsOfSide(entries, CHOOSE o \in Sides : o # sd) = {}
                /\ (pendingOps' \ pendingOps) \subseteq IdsOfSide(entries, sd)
                /\ \A o \in Sides \ {sd} : lockedSides'[o] = lockedSides[o]
                /\ lockedEntries' = lockedEntries
                /\ timers' = timers]_vars
    /\ [][\A r \in inflight, ok \in BOOLEAN :
            RT_groupSettle(r, ok) =>
                /\ entries' = entries
                /\ lockedSides' = lockedSides /\ lockedEntries' = lockedEntries
                /\ \A t \in timers' \ timers :
                        t.kind = "side" /\ r.id \in IdsOfSide(entries, t.key)]_vars

\* The first operation has checked a row of the right side, the second was a
\* check or uncheck on the left side: the right side still shows its checked
\* row and holds the lock of the first operation.
C38_Witness ==
    /\ ops = 2
    /\ lockedSides["right"] # NoLock /\ lockedSides["right"][2] = 1
    /\ lockedSides["left"] # NoLock /\ lockedSides["left"][2] = 2
    /\ CheckedRows(entries, "right") # {}
    /\ \E k \in DOMAIN storeCalls :
            storeCalls[k].tok[2] = 2 /\ storeCalls[k].id \in IdsOfSide(entries, "left")

\* C39: in the view, once every toggleChecked call has settled (no store
\* update of the client is in flight and no group is awaited), the P1 slot and
\* the P2 slot of the same (rowIndex, side) have the same checked value, also
\* after polls have been applied in between.
C39_PairSharesChecked ==
    ((\A r \in inflight : r.method # "PATCH") /\ calls = {}) =>
        \A row \in Rows, sd \in Sides :
            (getEntry(row, sd, "P1") # NoEntry /\ getEntry(row, sd, "P2") # NoEntry)
                => getEntry(row, sd, "P1").checked = getEntry(row, sd, "P2").checked

====
